---- MODULE Spec2Model ----
(***************************************************************************)
(* A model of the 1pass keychain engine (package onepass) and of its key   *)
(* agent (agent.go).                                                       *)
(*                                                                         *)
(* Byte strings are sequences of numbers in 0..255.  The three primitives  *)
(* the code takes from libraries (MD5, PBKDF2-HMAC-SHA1, the AES block     *)
(* permutation) are replaced by small arithmetic stand-ins with the same   *)
(* shape: a digest of all the input bytes, and a keyed bijection on        *)
(* 16-byte blocks.  Everything the repository itself implements on top of  *)
(* them (padding, CBC framing, salted envelopes, key validation, the key   *)
(* dictionary, the agent's map and timers, item files and the index) is    *)
(* modelled as the code computes it.                                       *)
(*                                                                         *)
(* The specifications share the variables; each leaves alone the ones it   *)
(* does not use.  SpecAgent: the agent, one handler at a time, with its    *)
(* timers and a clock (SpecAgentLive: the same, left running).  SpecVault: *)
(* a vault used through package onepass.  SpecItem: a vault from its       *)
(* creation on, its master password and one item.  SpecEdit: the commands  *)
(* that set one field of an item.  SpecExport: export to and import from a *)
(* .1pif folder.  SpecSave: Item.Save one file access at a time.  SpecKeys:*)
(* the master password of a vault with two item keys.  SpecRace: the       *)
(* agent's handlers as the goroutines the RPC server runs.  SpecBoot: the  *)
(* client's start.  SpecCrypto: the crypto helpers applied to drawn        *)
(* arguments.                                                              *)
(***************************************************************************)
EXTENDS Integers, Sequences, FiniteSets, Bags, TLC

VARIABLES
    keyFiles,    \* the disk: vaultPath -> contents of its encryptionKeys.js
    keys,        \* agent.keys: vaultPath -> KeyDict (agent.go:19)
    timers,      \* pending time.AfterFunc callbacks, a bag of [vault, at]
    now,         \* wall clock, in ticks
    last,        \* the last completed call: its arguments and its reply
    held,        \* what the agent client last got back from Encrypt
    lockedAt,    \* history: vault -> tick of its last successful Unlock/Refresh + expireAfter
    timedOut,    \* history: vaults whose timer fired and that were not unlocked since
    cryptoAgent, \* vault.CryptoAgent: whether it is set, and its keys
    contents,    \* contents.js: the index rows
    files,       \* <uuid>.1password files: uuid -> Item
    pc,          \* position of each agent goroutine
    call,        \* what each agent goroutine is executing
    crashed,     \* the agent process was stopped by the Go runtime
    crypt,       \* a call of a crypto helper: its arguments and what it returned
    pif,         \* the export folder: whether it exists, and its data.1pif
    boot,        \* the client's start: the binary, the agent processes, the client
    keysPlist    \* the disk: vaultPath -> contents of its 1password.keys

notAgentVars == <<keyFiles, cryptoAgent, contents, files, pc, call, crashed, crypt, pif, boot,
                  keysPlist>>
vars      == <<keyFiles, keys, timers, now, last, held, lockedAt, timedOut,
               cryptoAgent, contents, files, pc, call, crashed, crypt, pif, boot, keysPlist>>

----------------------------------------------------------------------------
(* Values *)

Nil == "nil"                       \* Go's nil: no error, no map, no pointer
NoBytes == <<>>                    \* a nil or empty []byte

Aes128KeyLen == 16
AesBlockLen == 16
saltLen == 8
pbkdfKeyLen == 32

\* The length of an item key.  The source sets 1024; the model keeps item
\* keys short and derives from this length every length the source derives
\* from 1024 (1040 bytes of ciphertext, 1056 bytes of entry.Data).
agileKeychainKeyLen == 32
PaddedLen(n) == n + AesBlockLen - (n % AesBlockLen)
encryptedKeyDataLen == Len(<<83, 97, 108, 116, 101, 100, 95, 95>>) + saltLen
                         + PaddedLen(agileKeychainKeyLen)

SaltedMagic == <<83, 97, 108, 116, 101, 100, 95, 95>>     \* "Salted__"

Fill(b, count) == [i \in 1..count |-> b]

----------------------------------------------------------------------------
(* Stand-ins for the library primitives                                    *)
(*                                                                         *)
(* A value the code binds once and reads several times is handed on as an  *)
(* operator argument (the operators named ...Then, ...With): an argument   *)
(* is evaluated once, a LET definition at each use.                        *)

\* The sum of the bytes of s, byte i weighted by (i % 13) + 1 (the
\* cardinality of a bag is the sum of its counts).
WeightedSum(s) == BagCardinality([i \in 1..Len(s) |-> ((i % 13) + 1) * (s[i] + 1)])

\* An 8-bit digest of every byte of s and of its length.
Digest(s) == (WeightedSum(s) + 31 * Len(s)) % 256

Spread(h, step, count) == [i \in 1..count |-> (h + step * i) % 256]

\* md5.Sum: 16 bytes determined by the input.
Md5Sum(data) == Spread(Digest(data), 29, 16)

\* pbkdf2.Key(pwd, salt, iter, keyLen, sha1.New)
Pbkdf2Key(pwd, salt, iterCount, keyLen) ==
    Spread(3 * Digest(pwd \o salt \o <<iterCount % 256, (iterCount \div 256) % 256>>),
           37, keyLen)

\* rand.Read: the byte string drawn for a given seed.
RandomBytesFor(seed, count) == [i \in 1..count |-> (seed * 17 + i * 7) % 256]

\* cipher.NewCBCEncrypter(..).CryptBlocks: block j is E_k(p_j + c_{j-1}),
\* c_0 = iv, with E_k(x) = x + k bytewise modulo 256.
RECURSIVE CbcEncryptBlocks(_, _, _, _)
CbcEncryptThen(key, plain, c, pos) ==
    c \o CbcEncryptBlocks(key, plain, c, pos + AesBlockLen)
CbcEncryptBlocks(key, plain, prev, pos) ==
    IF pos > Len(plain) THEN <<>>
    ELSE CbcEncryptThen(key, plain,
             [i \in 1..AesBlockLen |-> (plain[pos + i - 1] + prev[i] + key[i]) % 256],
             pos)

\* cipher.NewCBCDecrypter(..).CryptBlocks: p_j = D_k(c_j) - c_{j-1}.
CbcDecryptBlocks(key, cipherText, iv) ==
    [i \in 1..Len(cipherText) |->
        LET j == ((i - 1) % AesBlockLen) + 1
            prev == IF i <= AesBlockLen THEN iv[j] ELSE cipherText[i - AesBlockLen]
        IN  (cipherText[i] + 512 - prev - key[j]) % 256]

----------------------------------------------------------------------------
(* Crypto helpers of package onepass *)

Ok(out) == [err |-> Nil, out |-> out]
Fail(err) == [err |-> err, out |-> NoBytes]

ErrPanic == "panic"                          \* a Go runtime panic
ErrBlockLen == "Decrypted data block length is not a multiple of 16"
ErrPaddingLen == "Invalid last block padding length"
ErrKeyLen == "Incorrect key length"
ErrIvLen == "Incorrect IV length"
ErrMissingSalt == "Ciphertext missing salt"
ErrItemKeyLen == "unexpected item key length"
ErrInvalidItemData == "Invalid encrypted item data"
ErrValidation == "Validation decryption failed"
ErrInvalidValidation == "Invalid validation"
ErrDecryptValidation == "Failed to decrypt validation"
ErrEncryptValidation == "Failed to encrypt validation"

\* A faulty padding: a plaintext of whole blocks gets none.
PadToBlock(data) ==
    data \o Fill((AesBlockLen - (Len(data) % AesBlockLen)) % AesBlockLen,
                 (AesBlockLen - (Len(data) % AesBlockLen)) % AesBlockLen)

aesAddPadding(data) ==
    LET paddingLen == AesBlockLen - (Len(data) % AesBlockLen)
    IN  data \o Fill(paddingLen, paddingLen)

aesStripPadding(data) ==
    IF Len(data) % AesBlockLen # 0 THEN Fail(ErrBlockLen)
    ELSE IF Len(data) = 0 THEN Fail(ErrPanic)      \* data[len(data)-1], index -1
    ELSE LET paddingLen == data[Len(data)]
         IN  IF paddingLen > 16 THEN Fail(ErrPaddingLen)
             ELSE Ok(SubSeq(data, 1, Len(data) - paddingLen))

aesCbcEncrypt(key, plainText, iv) ==
    IF Len(key) # Aes128KeyLen THEN Fail(ErrKeyLen)
    ELSE IF Len(iv) # Aes128KeyLen THEN Fail(ErrIvLen)
    ELSE Ok(CbcEncryptBlocks(key, aesAddPadding(plainText), iv, 1))

aesCbcDecrypt(key, cipherText, iv) ==
    IF Len(key) # Aes128KeyLen THEN Fail(ErrKeyLen)
    ELSE IF Len(iv) # Aes128KeyLen THEN Fail(ErrIvLen)
    ELSE IF Len(cipherText) % AesBlockLen # 0 THEN Fail(ErrPanic)  \* CryptBlocks: input not full blocks
    ELSE aesStripPadding(CbcDecryptBlocks(key, cipherText, iv))

extractSaltAndCipherText(data) ==
    IF Len(data) < 16 THEN [err |-> ErrMissingSalt, salt |-> NoBytes, cipherText |-> NoBytes]
    ELSE [err |-> Nil, salt |-> SubSeq(data, 9, 16), cipherText |-> SubSeq(data, 17, Len(data))]

\* openSslKey: key = md5(password + salt), iv = md5(key + password + salt)
openSslKeyThen(data, h0) == [key |-> h0, iv |-> Md5Sum(h0 \o data)]
openSslKey(password, salt) == openSslKeyThen(password \o salt, Md5Sum(password \o salt))

\* The seeds the random source can return in this model.
MaxSeed == 1
Seeds == 1..MaxSeed
KeySeedBase == 100         \* item keys are drawn with seeds above this base

\* encryptKey; validationSalt is the value its randomBytes(8) call returns.
encryptKeyThen(encryptedKey, validationSalt, validationCipherText) ==
    IF encryptedKey.err # Nil
    THEN [err |-> encryptedKey.err, encryptedKey |-> NoBytes, validation |-> NoBytes]
    ELSE IF validationCipherText.err # Nil
    THEN [err |-> ErrEncryptValidation, encryptedKey |-> NoBytes, validation |-> NoBytes]
    ELSE [err |-> Nil, encryptedKey |-> encryptedKey.out,
          validation |-> SaltedMagic \o validationSalt \o validationCipherText.out]
encryptKeyWith(derivedKey, decryptedKey, validationSalt, vk) ==
    encryptKeyThen(aesCbcEncrypt(SubSeq(derivedKey, 1, 16), decryptedKey,
                                 SubSeq(derivedKey, 17, 32)),
                   validationSalt,
                   aesCbcEncrypt(vk.key, decryptedKey, vk.iv))
\* A faulty encryptKey: the validation blob does not carry the salt its key
\* was derived with.
EncryptKeyDropsSalt(masterPwd, decryptedKey, salt, iterCount, validationSalt) ==
    encryptKeyWith(Pbkdf2Key(masterPwd, salt, iterCount, pbkdfKeyLen), decryptedKey,
                   Fill(0, saltLen), openSslKey(decryptedKey, validationSalt))
encryptKey(masterPwd, decryptedKey, salt, iterCount, validationSalt) ==
    encryptKeyWith(Pbkdf2Key(masterPwd, salt, iterCount, pbkdfKeyLen), decryptedKey,
                   validationSalt, openSslKey(decryptedKey, validationSalt))

\* decryptKey, from the validation check on
decryptKeyThen(decryptedKey, v, decryptedValidation) ==
    IF decryptedKey.err # Nil THEN Fail(decryptedKey.err)
    ELSE IF v.err # Nil THEN Fail(ErrInvalidValidation)
    ELSE IF decryptedValidation.err = ErrPanic THEN Fail(ErrPanic)
    ELSE IF decryptedValidation.err # Nil THEN Fail(ErrDecryptValidation)
    ELSE IF decryptedValidation.out # decryptedKey.out THEN Fail(ErrValidation)
    ELSE Ok(decryptedKey.out)
decryptKeyValidation(decryptedKey, v, vk) ==
    decryptKeyThen(decryptedKey, v, aesCbcDecrypt(vk.key, v.cipherText, vk.iv))
decryptKeyWith(decryptedKey, v) ==
    decryptKeyValidation(decryptedKey, v, openSslKey(decryptedKey.out, v.salt))
decryptKeyDerived(derivedKey, encryptedKey, validation) ==
    decryptKeyWith(aesCbcDecrypt(SubSeq(derivedKey, 1, 16), encryptedKey,
                                 SubSeq(derivedKey, 17, 32)),
                   extractSaltAndCipherText(validation))
decryptKey(masterPwd, encryptedKey, salt, iterCount, validation) ==
    decryptKeyDerived(Pbkdf2Key(masterPwd, salt, iterCount, pbkdfKeyLen),
                      encryptedKey, validation)

----------------------------------------------------------------------------
(* The password generator; a string is the sequence of its character codes *)

\* base64.StdEncoding.EncodeToString: three bytes give four characters of
\* A-Z a-z 0-9 + /, and a last group of one or two bytes is filled with "=".
Base64Char(v) ==
    IF v < 26 THEN 65 + v
    ELSE IF v < 52 THEN 71 + v
    ELSE IF v < 62 THEN v - 4
    ELSE IF v = 62 THEN 43 ELSE 47
ByteAt(bytes, i) == IF i <= Len(bytes) THEN bytes[i] ELSE 0
Base64Group(bytes, g) ==
    ByteAt(bytes, 3 * g - 2) * 65536 + ByteAt(bytes, 3 * g - 1) * 256 + ByteAt(bytes, 3 * g)
Base64Sextet(v, j) ==
    IF j = 1 THEN v \div 262144
    ELSE IF j = 2 THEN (v \div 4096) % 64
    ELSE IF j = 3 THEN (v \div 64) % 64
    ELSE v % 64
Base64Encode(bytes) ==
    [k \in 1..(4 * ((Len(bytes) + 2) \div 3)) |->
        LET g == ((k - 1) \div 4) + 1
            j == ((k - 1) % 4) + 1
        IN  IF j > Len(bytes) - 3 * (g - 1) + 1 THEN 61
            ELSE Base64Char(Base64Sextet(Base64Group(bytes, g), j))]

IsLower(ch) == ch \in 97..122
IsUpper(ch) == ch \in 65..90
IsDigit(ch) == ch \in 48..57

\* genPasswordCandidate: i is the next position of base64Data, counted from
\* 1; seed stands for the next call of randomBytes.
RECURSIVE genPasswordLoop(_, _, _, _, _)
genPasswordLoop(length, i, base64Data, output, seed) ==
    IF Len(output) >= length THEN output
    ELSE IF i > Len(base64Data)
    THEN genPasswordLoop(length, i,
                         base64Data \o Base64Encode(RandomBytesFor(seed, length)),
                         output, seed + 1)
    ELSE IF base64Data[i] \notin {43, 47, 61}
    THEN genPasswordLoop(length, i + 1, base64Data,
                         output \o (IF Len(output) % 4 = 3 /\ length - Len(output) > 1
                                    THEN <<45>> ELSE <<>>) \o <<base64Data[i]>>,
                         seed)
    ELSE genPasswordLoop(length, i + 1, base64Data, output, seed)
genPasswordCandidate(length, seed) == genPasswordLoop(length, 1, <<>>, <<>>, seed)

\* GenPassword: candidates are drawn until one has a lower case letter, an
\* upper case letter and a digit.  The model stops after MaxDraws of them.
MaxDraws == 4
MaxPwdLen == 20
ErrPwdLen == "Minimum password length is 4 chars"
ErrDrawing == "no candidate accepted yet"
\* A faulty generator: the first candidate is returned.
FirstCandidate(length, seed, draws) ==
    [err |-> Nil, out |-> genPasswordCandidate(length, seed)]
RECURSIVE GenPassword(_, _, _)
GenPasswordThen(length, seed, draws, candidate) ==
    IF /\ \E k \in 1..Len(candidate) : IsLower(candidate[k])
       /\ \E k \in 1..Len(candidate) : IsUpper(candidate[k])
       /\ \E k \in 1..Len(candidate) : IsDigit(candidate[k])
    THEN Ok(candidate)
    ELSE IF draws <= 1 THEN Fail(ErrDrawing)
    ELSE GenPassword(length, seed + 1, draws - 1)
GenPassword(length, seed, draws) ==
    IF length < 4 THEN Fail(ErrPwdLen)
    ELSE GenPasswordThen(length, seed, draws, genPasswordCandidate(length, seed))

----------------------------------------------------------------------------
(* Key store *)

ErrReadKeyFile == "Failed to read encryption key file"
ErrKeyDataLen == "Unexpected encrypted key length"
ErrInvalidKeyData == "Invalid encrypted data"
DecryptError == "DecryptError"               \* the error type UnlockKeys wraps decryptKey failures in

\* One encKeyEntry as NewVault builds it; the seeds stand for the three
\* randomBytes calls (item key, salt, validation salt).
NewKeyEntryThen(salt, enc, iterations, level, identifier) ==
    [data |-> SaltedMagic \o salt \o enc.encryptedKey,
     identifier |-> identifier,
     iterations |-> iterations,
     level |-> level,
     validation |-> enc.validation]
NewKeyEntry(masterPwd, iterations, level, identifier, keySeed, saltSeed, vSaltSeed) ==
    NewKeyEntryThen(RandomBytesFor(saltSeed, saltLen),
                    encryptKey(masterPwd, RandomBytesFor(keySeed, agileKeychainKeyLen),
                               RandomBytesFor(saltSeed, saltLen), iterations,
                               RandomBytesFor(vSaltSeed, saltLen)),
                    iterations, level, identifier)

\* m[k] = v on a Go map held as a function.
MapSet(m, k, v) == [x \in (DOMAIN m) \cup {k} |-> IF x = k THEN v ELSE m[x]]
\* delete(m, k)
MapDelete(m, k) == [x \in (DOMAIN m) \ {k} |-> m[x]]
EmptyMap == [x \in {} |-> Nil]

\* A KeyDict value: Go tells a nil map from an empty one.
KeyDict(m) == [nil |-> FALSE, m |-> m]
NilKeyDict == [nil |-> TRUE, m |-> EmptyMap]
EmptyKeyDict == KeyDict(EmptyMap)            \* KeyDict{}

\* What jsonutil.ReadFile yields for a file that cannot be read.
Unreadable == [ok |-> FALSE, list |-> <<>>, SL5 |-> ""]

\* The loop of UnlockKeys over keyList.List from entry i on, with the
\* dictionary built so far.
RECURSIVE UnlockEntries(_, _, _, _)
UnlockEntryThen(list, i, pwd, dict, entry, decryptedKey) ==
    IF decryptedKey.err = ErrPanic THEN [err |-> ErrPanic, keys |-> EmptyKeyDict]
    ELSE IF decryptedKey.err # Nil THEN [err |-> DecryptError, keys |-> EmptyKeyDict]
    ELSE UnlockEntries(list, i + 1, pwd, MapSet(dict, entry.level, decryptedKey.out))
UnlockEntry(list, i, pwd, dict, entry, x) ==
    IF Len(entry.data) # encryptedKeyDataLen
    THEN [err |-> ErrKeyDataLen, keys |-> EmptyKeyDict]
    ELSE IF x.err # Nil THEN [err |-> ErrInvalidKeyData, keys |-> EmptyKeyDict]
    ELSE UnlockEntryThen(list, i, pwd, dict, entry,
                         decryptKey(pwd, x.cipherText, x.salt,
                                    entry.iterations, entry.validation))
UnlockEntries(list, i, pwd, dict) ==
    IF i > Len(list) THEN [err |-> Nil, keys |-> KeyDict(dict)]
    ELSE UnlockEntry(list, i, pwd, dict, list[i], extractSaltAndCipherText(list[i].data))

\* UnlockKeys; keyFile is what jsonutil.ReadFile finds at
\* <vaultPath>/data/default/encryptionKeys.js.
\* On every failure the code returns KeyDict{}, an empty non-nil map.
UnlockKeys(keyFile, pwd) ==
    IF ~keyFile.ok THEN [err |-> ErrReadKeyFile, keys |-> EmptyKeyDict]
    ELSE UnlockEntries(keyFile.list, 1, pwd, EmptyMap)

ErrNoSuchKey == "No such key"

\* EncryptItemData; salt is the value its randomBytes(8) call returns.
EncryptItemDataThen(salt, encryptedData) ==
    IF encryptedData.err # Nil THEN Fail(encryptedData.err)
    ELSE Ok(SaltedMagic \o salt \o encryptedData.out)
EncryptItemDataWith(data, salt, k) ==
    EncryptItemDataThen(salt, aesCbcEncrypt(k.key, data, k.iv))
EncryptItemData(itemKey, data, salt) ==
    IF Len(itemKey) # agileKeychainKeyLen THEN Fail(ErrItemKeyLen)
    ELSE EncryptItemDataWith(data, salt, openSslKey(itemKey, salt))

DecryptItemDataWith(x, k) == aesCbcDecrypt(k.key, x.cipherText, k.iv)
DecryptItemDataThen(itemKey, x) ==
    IF x.err # Nil THEN Fail(ErrInvalidItemData)
    ELSE DecryptItemDataWith(x, openSslKey(itemKey, x.salt))
DecryptItemData(itemKey, data) ==
    IF Len(itemKey) # agileKeychainKeyLen THEN Fail(ErrItemKeyLen)
    ELSE DecryptItemDataThen(itemKey, extractSaltAndCipherText(data))

----------------------------------------------------------------------------
(* The world the agent runs in *)

MaxTime == 2               \* the clock stops ticking here
MaxExpire == 2             \* expireAfter ranges over 1..MaxExpire ticks
MaxTimers == 2             \* pending timers the model lets accumulate

PwdTest == <<116, 101, 115, 116, 45, 112, 119, 100>>      \* "test-pwd"
PwdWrong == <<119, 114, 111, 110, 103>>                   \* "wrong"
Passwords == {PwdTest, PwdWrong}
testIterations == 100

VaultA == "a.agilekeychain"          \* a vault made by NewVault: one SL5 key
NoVault == "none.agilekeychain"      \* a path with no encryptionKeys.js
VaultPaths == {VaultA}
AllPaths == VaultPaths \cup {NoVault}
Levels == {"SL5", "SL3"}
ExpireChoices == 1..MaxExpire

\* encryptionKeys.js as NewVault writes it.
NewVaultKeyList(masterPwd, iterations, identifier, keySeed, saltSeed, vSaltSeed) ==
    LET mainKey == NewKeyEntry(masterPwd, iterations, "SL5", identifier,
                               keySeed, saltSeed, vSaltSeed)
    IN  [ok |-> TRUE, list |-> <<mainKey>>, SL5 |-> mainKey.identifier]

\* The key files on disk when the agent starts.
InitialKeyFiles ==
    [v \in AllPaths |->
        IF v = VaultA
        THEN NewVaultKeyList(PwdTest, testIterations, "KEY-A", KeySeedBase + 1, 1, 2)
        ELSE Unreadable]

DataChoices == {<<104, 105>>, Fill(120, AesBlockLen)}     \* "hi", sixteen 'x'
ShortInput == <<1, 2, 3>>

\* The arguments of one call of a crypto helper and, as the calls are made,
\* what they returned.
NoCrypt == [kind |-> "none", op |-> "none", s |-> NoBytes, data |-> NoBytes,
            stripped |-> Ok(NoBytes), pwd |-> NoBytes, key |-> NoBytes, salt |-> NoBytes,
            iterations |-> 0, vSalt |-> NoBytes, length |-> 0, seed |-> 0,
            enc |-> [err |-> Nil, encryptedKey |-> NoBytes, validation |-> NoBytes],
            dec |-> Ok(NoBytes)]

\* A faulty NewVault: an existing vault is written over.
NewVaultOverwrites(disk, vaultPath, masterPwd, iterations, identifier, keySeed, saltSeed, vSaltSeed) ==
    [err |-> Nil, created |-> TRUE,
     keyFile |-> NewVaultKeyList(masterPwd, testIterations, identifier, keySeed,
                                 saltSeed, vSaltSeed)]

\* NewVault: the error and the key file afterwards; exists is what os.Stat
\* finds at vaultPath, the seeds stand for its randomBytes calls.
defaultPbkdfIterations == 17094
ErrVaultSuffix == "vault folder name must end with .agilekeychain"
ErrVaultExists == "Vault already exists"
ErrGenerateKey == "Failed to generate encryption key"
BadPath == "vault"
HasKeychainSuffix(vaultPath) == vaultPath # BadPath
VaultExists(disk, vaultPath) == disk[vaultPath].ok
\* encryptKey returns no ciphertext exactly when it returns an error; the
\* directory and contents.js have been created by then.
NewVaultThen(keyFile, keyList) ==
    IF Len(keyList.list[1].data) = Len(SaltedMagic) + saltLen
    THEN [err |-> ErrGenerateKey, keyFile |-> keyFile, created |-> TRUE]
    ELSE [err |-> Nil, keyFile |-> keyList, created |-> TRUE]
NewVault(disk, vaultPath, masterPwd, iterations, identifier, keySeed, saltSeed, vSaltSeed) ==
    IF ~HasKeychainSuffix(vaultPath)
    THEN [err |-> ErrVaultSuffix, keyFile |-> Unreadable, created |-> FALSE]
    ELSE IF VaultExists(disk, vaultPath)
    THEN [err |-> ErrVaultExists, keyFile |-> disk[vaultPath], created |-> FALSE]
    ELSE NewVaultThen(disk[vaultPath],
                      NewVaultKeyList(masterPwd,
                                      IF iterations = 0 THEN defaultPbkdfIterations
                                      ELSE iterations,
                                      identifier, keySeed, saltSeed, vSaltSeed))

\* The loop of SetMasterPassword over keyList.List from entry i on; the key
\* file is written when the loop has ended.
ErrInvalidKey == "Invalid encrypted key"
ErrDecryptMainKey == "Failed to decrypt main key"
ErrReEncrypt == "Failed to re-encrypt main key"
RECURSIVE ReEncryptEntries(_, _, _, _, _, _)
ReEncryptEntryWith(keyFile, i, currentPwd, newPwd, newSalt, vSalt, enc) ==
    IF enc.err # Nil THEN [err |-> ErrReEncrypt, keyFile |-> keyFile]
    ELSE ReEncryptEntries(
             [keyFile EXCEPT !.list[i].data = SaltedMagic \o newSalt \o enc.encryptedKey,
                             !.list[i].validation = enc.validation],
             i + 1, currentPwd, newPwd, newSalt, vSalt)
ReEncryptEntryThen(keyFile, i, currentPwd, newPwd, newSalt, vSalt, decryptedKey) ==
    IF decryptedKey.err = ErrPanic THEN [err |-> ErrPanic, keyFile |-> keyFile]
    ELSE IF decryptedKey.err # Nil THEN [err |-> ErrDecryptMainKey, keyFile |-> keyFile]
    ELSE ReEncryptEntryWith(keyFile, i, currentPwd, newPwd, newSalt, vSalt,
                            encryptKey(newPwd, decryptedKey.out, newSalt,
                                       keyFile.list[i].iterations, vSalt))
ReEncryptEntry(keyFile, i, currentPwd, newPwd, newSalt, vSalt, entry, x) ==
    IF Len(entry.data) # encryptedKeyDataLen
    THEN [err |-> ErrKeyDataLen, keyFile |-> keyFile]
    ELSE IF x.err # Nil THEN [err |-> ErrInvalidKey, keyFile |-> keyFile]
    ELSE ReEncryptEntryThen(keyFile, i, currentPwd, newPwd, newSalt, vSalt,
                            decryptKey(currentPwd, x.cipherText, x.salt,
                                       entry.iterations, entry.validation))
ReEncryptEntries(keyFile, i, currentPwd, newPwd, newSalt, vSalt) ==
    IF i > Len(keyFile.list) THEN [err |-> Nil, keyFile |-> keyFile]
    ELSE ReEncryptEntry(keyFile, i, currentPwd, newPwd, newSalt, vSalt, keyFile.list[i],
                        extractSaltAndCipherText(keyFile.list[i].data))

\* A faulty SetMasterPassword: a fresh item key is drawn and encrypted.
SetFreshKey(keyFile, currentPwd, newPwd, newSalt, vSalt) ==
    IF ~keyFile.ok THEN [err |-> ErrReadKeyFile, keyFile |-> keyFile]
    ELSE [err |-> Nil,
          keyFile |-> NewVaultKeyList(newPwd, keyFile.list[1].iterations,
                                      keyFile.list[1].identifier, KeySeedBase + 2, 1, 2)]

\* A faulty SetMasterPassword: the entries re-encrypted before an error are
\* written.
SetPasswordKeepsDone(keyFile, currentPwd, newPwd, newSalt, vSalt) ==
    IF ~keyFile.ok THEN [err |-> ErrReadKeyFile, keyFile |-> keyFile]
    ELSE ReEncryptEntries(keyFile, 1, currentPwd, newPwd, newSalt, vSalt)

\* saveEncryptionKeys: encryptionKeys.js is written, then 1password.keys;
\* a write that fails ends the call.
ErrSaveKeys == "Failed to save updated keys"
saveEncryptionKeys(js, plist, keyList, jsWritten, plistWritten) ==
    IF ~jsWritten THEN [err |-> ErrSaveKeys, js |-> js, plist |-> plist]
    ELSE IF ~plistWritten THEN [err |-> ErrSaveKeys, js |-> keyList, plist |-> plist]
    ELSE [err |-> Nil, js |-> keyList, plist |-> keyList]

\* Vault.SetMasterPassword: the error and the key file afterwards.
SetMasterPasswordThen(keyFile, r) ==
    IF r.err # Nil THEN [err |-> r.err, keyFile |-> keyFile] ELSE r
SetMasterPassword(keyFile, currentPwd, newPwd, newSalt, vSalt) ==
    IF ~keyFile.ok THEN [err |-> ErrReadKeyFile, keyFile |-> keyFile]
    ELSE SetMasterPasswordThen(keyFile,
                               ReEncryptEntries(keyFile, 1, currentPwd, newPwd,
                                                newSalt, vSalt))

----------------------------------------------------------------------------
(* agent.go: the handlers, as functions of agent.keys *)

\* agent.keys[args.VaultPath][args.KeyName], ok
LookupKey(ks, vaultPath, keyName) ==
    IF vaultPath \in DOMAIN ks /\ keyName \in DOMAIN ks[vaultPath].m
    THEN [ok |-> TRUE, itemKey |-> ks[vaultPath].m[keyName]]
    ELSE [ok |-> FALSE, itemKey |-> NoBytes]

\* OnePassAgent.Encrypt; salt is what randomBytes returns to EncryptItemData.
OnePassAgentEncryptThen(k, args, salt) ==
    IF ~k.ok THEN Fail(ErrNoSuchKey)
    ELSE EncryptItemData(k.itemKey, args.Data, salt)
OnePassAgentEncrypt(ks, args, salt) ==
    OnePassAgentEncryptThen(LookupKey(ks, args.VaultPath, args.KeyName), args, salt)

\* OnePassAgent.Decrypt
OnePassAgentDecryptThen(k, args) ==
    IF ~k.ok THEN Fail(ErrNoSuchKey)
    ELSE DecryptItemData(k.itemKey, args.Data)
OnePassAgentDecrypt(ks, args) ==
    OnePassAgentDecryptThen(LookupKey(ks, args.VaultPath, args.KeyName), args)

\* OnePassAgent.Unlock: the reply, the map afterwards and whether
\* time.AfterFunc was called; disk is the file system UnlockKeys reads.
OnePassAgentUnlockThen(ks, args, r) ==
    IF r.err # Nil THEN [err |-> r.err, ok |-> FALSE, keys |-> ks, timer |-> FALSE]
    ELSE [err |-> Nil, ok |-> TRUE,
          keys |-> MapSet(ks, args.VaultPath, r.keys), timer |-> TRUE]
\* A faulty Unlock: the keys are stored and no timer is set.
UnlockWithoutTimer(ks, disk, args) ==
    [OnePassAgentUnlockThen(ks, args, UnlockKeys(disk[args.VaultPath], args.MasterPwd))
        EXCEPT !.timer = FALSE]
\* A faulty Unlock: what UnlockKeys returned is stored before its error is
\* looked at.
UnlockStoresFirst(ks, disk, args) ==
    [OnePassAgentUnlockThen(ks, args, UnlockKeys(disk[args.VaultPath], args.MasterPwd))
        EXCEPT !.keys = MapSet(ks, args.VaultPath,
                               UnlockKeys(disk[args.VaultPath], args.MasterPwd).keys)]
OnePassAgentUnlock(ks, disk, args) ==
    OnePassAgentUnlockThen(ks, args, UnlockKeys(disk[args.VaultPath], args.MasterPwd))

\* A faulty Lock: the keys stay in the map.
LockKeepsKeys(ks, vaultPath) == ks

\* OnePassAgent.Lock
OnePassAgentLock(ks, vaultPath) == MapDelete(ks, vaultPath)

\* OnePassAgent.IsLocked: agent.keys[vaultPath] == nil
OnePassAgentIsLocked(ks, vaultPath) ==
    vaultPath \notin DOMAIN ks \/ ks[vaultPath].nil

\* OnePassAgentClient.Encrypt: the CryptArgs it sends (Data is not set).
ClientEncryptArgs(vaultPath, keyName, in) ==
    [VaultPath |-> vaultPath, KeyName |-> keyName, Data |-> NoBytes]

\* OnePassAgentClient.Decrypt: the CryptArgs it sends.
ClientDecryptArgs(vaultPath, keyName, in) ==
    [VaultPath |-> vaultPath, KeyName |-> keyName, Data |-> in]

\* One pending time.AfterFunc callback.
Timer(vaultPath, at) == SetToBag({[vault |-> vaultPath, at |-> at]})
TimersOf(ts, vaultPath) == {x \in BagToSet(ts) : x.vault = vaultPath}

\* A faulty RefreshAccess: the pending timer is left running.
AddTimerOnly(ts, vaultPath, at) == ts (+) Timer(vaultPath, at)

\* The timers RefreshAccess leaves: the vault's pending auto-lock timer is
\* cancelled and one for now + expireAfter replaces it.
RefreshTimers(ts, vaultPath, at) ==
    [t \in {x \in DOMAIN ts : x.vault # vaultPath} |-> ts[t]] (+) Timer(vaultPath, at)

ErrNotUnlocked == "Vault is not unlocked"

----------------------------------------------------------------------------
(* package onepass: the vault, its items and the index *)

Tombstone == "system.Tombstone"
WebForm == "webforms.WebForm"

ErrVaultLocked == "Vault is locked"
ErrEncryptItem == "Failed to encrypt item"
ErrContentNotSet == "Item content not set"
ErrNoItemFile == "open: no such file or directory"

\* vault.CryptoAgent: a nil interface, or a *simpleCryptoAgent and its keys.
NoAgent == [set |-> FALSE, keys |-> NilKeyDict]
simpleCryptoAgent(ks) == [set |-> TRUE, keys |-> ks]

\* Vault.Unlock: the agent is replaced whatever UnlockKeys returned.
VaultUnlockThen(r) == [err |-> r.err, cryptoAgent |-> simpleCryptoAgent(r.keys)]
VaultUnlock(keyFile, pwd) == VaultUnlockThen(UnlockKeys(keyFile, pwd))

\* Vault.IsLocked
VaultIsLocked(ca) == ~ca.set \/ ca.keys.nil

\* Vault.Lock
VaultLock(ca) == IF ca.set THEN [ca EXCEPT !.keys = NilKeyDict] ELSE ca

\* agent.keys[keyName]: a missing key reads as a nil slice.
KeyOf(kd, keyName) == IF keyName \in DOMAIN kd.m THEN kd.m[keyName] ELSE NoBytes

\* simpleCryptoAgent.Encrypt / Decrypt
simpleEncrypt(ca, keyName, in, salt) == EncryptItemData(KeyOf(ca.keys, keyName), in, salt)
simpleDecrypt(ca, keyName, in) == DecryptItemData(KeyOf(ca.keys, keyName), in)

\* Item{}: the zero item.  A uuid is the number of a draw of newItemId; 0
\* is the empty string.  Fields no modelled operation sets are left out.
ZeroItem == [uuid |-> 0, typeName |-> "", title |-> "", location |-> "",
             updatedAt |-> 0, createdAt |-> 0, folderUuid |-> "",
             trashed |-> FALSE, securityLevel |-> "", encrypted |-> NoBytes]

\* ItemContent: its Urls, and whether that slice is nil (Sections and
\* FormFields are handled by the code exactly as Urls is); json.Marshal
\* writes each url as two bytes in braces.
ZeroContent == [Urls |-> <<>>, nilUrls |-> TRUE]                 \* ItemContent{}
EmptyContent == [Urls |-> <<>>, nilUrls |-> FALSE]
SiteContent == [Urls |-> <<[Label |-> "website", Url |-> "example.com"]>>,
                nilUrls |-> FALSE]
OtherContent == [Urls |-> <<[Label |-> "Website", Url |-> "other.org"]>>,
                 nilUrls |-> FALSE]
ContentChoices == {EmptyContent, SiteContent}
LabelByte(label) == IF label = "website" THEN 119 ELSE 87       \* "w", "W"
UrlByte(url) == IF url = "example.com" THEN 101 ELSE 111         \* "e", "o"
RECURSIVE MarshalUrls(_, _)
MarshalUrls(urls, i) ==
    IF i > Len(urls) THEN <<>>
    ELSE <<LabelByte(urls[i].Label), UrlByte(urls[i].Url)>> \o MarshalUrls(urls, i + 1)
MarshalContent(data) == <<123>> \o MarshalUrls(data.Urls, 1) \o <<125>>

\* SetContent: "ensure all sections are initialized"
InitSlices(data) == [data EXCEPT !.nilUrls = FALSE]

\* json.Unmarshal into an ItemContent{}: a JSON array, empty or not, is
\* read into a slice that is not nil.
ErrJson == "invalid character"
LabelOf(b) == IF b = 119 THEN "website" ELSE "Website"
UrlOf(b) == IF b = 101 THEN "example.com" ELSE "other.org"
UnmarshalUrls(json) ==
    [k \in 1..((Len(json) - 2) \div 2) |->
        [Label |-> LabelOf(json[2 * k]), Url |-> UrlOf(json[2 * k + 1])]]
UnmarshalContent(json) ==
    IF \/ Len(json) < 2 \/ Len(json) % 2 # 0
       \/ json[1] # 123 \/ json[Len(json)] # 125
       \/ \E k \in 1..((Len(json) - 2) \div 2) :
             json[2 * k] \notin {119, 87} \/ json[2 * k + 1] \notin {101, 111}
    THEN [err |-> ErrJson, content |-> ZeroContent]
    ELSE [err |-> Nil, content |-> [Urls |-> UnmarshalUrls(json), nilUrls |-> FALSE]]

\* A faulty loop: the label is not looked at.
AnyLabelUrl(urls, i, location) ==
    IF Len(urls) = 0 THEN location ELSE urls[Len(urls)].Url

\* The loop of SetContent over data.Urls: the last "website" url wins.
RECURSIVE WebsiteOf(_, _, _)
WebsiteOf(urls, i, location) ==
    IF i > Len(urls) THEN location
    ELSE WebsiteOf(urls, i + 1,
                   IF urls[i].Label = "website" THEN urls[i].Url ELSE location)

\* Item.SetContentJson: the error and the item afterwards.
SetContentJsonThen(item, enc) ==
    [err |-> IF enc.err # Nil THEN ErrEncryptItem ELSE Nil,
     item |-> [item EXCEPT !.encrypted = enc.out]]
SetContentJson(ca, item, content, salt) ==
    IF VaultIsLocked(ca) THEN [err |-> ErrVaultLocked, item |-> item]
    ELSE SetContentJsonThen(item, simpleEncrypt(ca, item.securityLevel, content, salt))

\* Item.SetContent
SetContent(ca, item, data, salt) ==
    SetContentJson(ca, [item EXCEPT !.location = WebsiteOf(data.Urls, 1, item.location)],
                   MarshalContent(InitSlices(data)), salt)

\* Item.ContentJson
ErrNoItemData == "No item data"
ErrDecryptItem == "Failed to decrypt item"
ContentJsonThen(decrypted) ==
    IF decrypted.err = ErrPanic THEN Fail(ErrPanic)
    ELSE IF decrypted.err # Nil THEN Fail(ErrDecryptItem)
    ELSE decrypted
ContentJson(ca, item) ==
    IF VaultIsLocked(ca) THEN Fail(ErrVaultLocked)
    ELSE IF Len(item.encrypted) < 16 THEN Fail(ErrNoItemData)
    ELSE ContentJsonThen(simpleDecrypt(ca, item.securityLevel, item.encrypted))

\* The keys of ItemTypes.
ItemTypes ==
    {"webforms.WebForm", "wallet.financial.CreditCard", "wallet.computer.Router",
     "securenotes.SecureNote", "passwords.Password", "wallet.onlineservices.Email.v2",
     "system.folder.Regular", "system.folder.SavedSearch",
     "wallet.financial.BankAccountUS", "wallet.computer.Database",
     "wallet.government.DriversLicense", "wallet.membership.Membership",
     "wallet.government.HuntingLicense", "wallet.government.Passport",
     "wallet.membership.RewardProgram", "wallet.computer.UnixServer",
     "wallet.government.SsnUS", "wallet.computer.License", "identities.Identity",
     "system.Tombstone"}
CustomType == "wallet.financial.BankAccountCA"       \* a type ItemTypes does not list
ErrUnknownType == "Unknown item type"

\* Item.Content
ContentThen(item, json) ==
    IF json.err # Nil THEN [err |-> json.err, content |-> ZeroContent]
    ELSE IF item.typeName \notin ItemTypes
    THEN [err |-> ErrUnknownType, content |-> ZeroContent]
    ELSE UnmarshalContent(json.out)
Content(ca, item) == ContentThen(item, ContentJson(ca, item))

\* Item.contentsEntry: the row of contents.js
contentsEntry(item) ==
    <<item.uuid, item.typeName, item.title, item.location, item.updatedAt,
      item.folderUuid, 0, IF item.trashed THEN "Y" ELSE "N">>

readContentsEntry(entry) ==
    IF Len(entry) < 8 THEN ZeroItem
    ELSE [ZeroItem EXCEPT !.uuid = entry[1], !.typeName = entry[2], !.title = entry[3],
                          !.location = entry[4], !.updatedAt = entry[5],
                          !.folderUuid = entry[6], !.trashed = (entry[8] = "Y")]

\* The loop of Item.Save over contentsEntries: the first row of the item's
\* uuid is replaced; without one the row is appended.
RowsOf(contentsEntries, uuid) ==
    {i \in 1..Len(contentsEntries) : readContentsEntry(contentsEntries[i]).uuid = uuid}
FirstOf(rows) == CHOOSE i \in rows : \A j \in rows : i <= j
\* A faulty Save: the item's row is taken out and put at the end.
MoveEntryLast(contentsEntries, item, rows) ==
    Append(SelectSeq(contentsEntries, LAMBDA e : readContentsEntry(e).uuid # item.uuid),
           contentsEntry(item))
UpsertEntryAt(contentsEntries, item, rows) ==
    IF rows = {} THEN Append(contentsEntries, contentsEntry(item))
    ELSE [contentsEntries EXCEPT ![FirstOf(rows)] = contentsEntry(item)]
\* A faulty Save: the row is always appended.
AppendEntry(contentsEntries, item) == Append(contentsEntries, contentsEntry(item))
UpsertEntry(contentsEntries, item) ==
    UpsertEntryAt(contentsEntries, item, RowsOf(contentsEntries, item.uuid))

\* Item.Save at time t: the error, the item, the item files and contents.js
\* afterwards.
ItemSaveThen(item, fs, idx) ==
    [err |-> Nil, item |-> item, files |-> MapSet(fs, item.uuid, item),
     contents |-> UpsertEntry(idx, item)]
\* A faulty Save: createdAt is set on every save.
SaveResetsCreatedAt(item, fs, idx, t) ==
    IF Len(item.encrypted) = 0
    THEN [err |-> ErrContentNotSet, item |-> item, files |-> fs, contents |-> idx]
    ELSE ItemSaveThen([item EXCEPT !.updatedAt = t, !.createdAt = t], fs, idx)
\* A faulty Save: the body is not looked at.
SaveWithoutCheck(item, fs, idx, t) ==
    ItemSaveThen([item EXCEPT !.updatedAt = t,
                              !.createdAt = IF @ = 0 THEN t ELSE @], fs, idx)
ItemSave(item, fs, idx, t) ==
    IF Len(item.encrypted) = 0
    THEN [err |-> ErrContentNotSet, item |-> item, files |-> fs, contents |-> idx]
    ELSE ItemSaveThen([item EXCEPT !.updatedAt = t,
                                   !.createdAt = IF @ = 0 THEN t ELSE @], fs, idx)

\* The two writes of Item.Save, one at a time: at "ready" the item file is
\* written, at "indexRead" the index, from the rows read before.
ErrSaveItem == "Failed to save item"
ErrReadContents == "Failed to read contents.js"
ErrUpdateContents == "Failed to update contents.js"
\* A faulty Save: the index row is written first, the item file second.
SaveWriteIndexFirst(step, item, fs, idx, entries) ==
    IF step = "ready" THEN [files |-> fs, contents |-> UpsertEntry(idx, item)]
    ELSE [files |-> MapSet(fs, item.uuid, item), contents |-> idx]
SaveWrite(step, item, fs, idx, entries) ==
    IF step = "ready" THEN [files |-> MapSet(fs, item.uuid, item), contents |-> idx]
    ELSE [files |-> fs, contents |-> UpsertEntry(entries, item)]

\* After SetContent: its error is returned, or the item is saved.
SaveIfSet(sc, fs, idx, t) ==
    IF sc.err # Nil THEN [err |-> sc.err, item |-> sc.item, files |-> fs, contents |-> idx]
    ELSE ItemSave(sc.item, fs, idx, t)

\* Vault.AddItem; uuid is what newItemId returns.  On an error the caller
\* gets Item{}.
AddItemThen(r) == IF r.err # Nil THEN [r EXCEPT !.item = ZeroItem] ELSE r
AddItem(ca, fs, idx, t, title, itemType, content, uuid, salt) ==
    AddItemThen(SaveIfSet(SetContent(ca, [ZeroItem EXCEPT !.title = title,
                                                          !.securityLevel = "SL5",
                                                          !.typeName = itemType,
                                                          !.uuid = uuid],
                                     content, salt),
                          fs, idx, t))

\* A faulty Remove: the item file and its index row are deleted.
RemoveDeletesFile(ca, item, fs, idx, t, salt) ==
    [err |-> Nil, item |-> item, files |-> MapDelete(fs, item.uuid),
     contents |-> SelectSeq(idx, LAMBDA e : readContentsEntry(e).uuid # item.uuid)]

\* Item.Remove
Remove(ca, item, fs, idx, t, salt) ==
    SaveIfSet(SetContent(ca, [item EXCEPT !.typeName = Tombstone, !.title = "Unnamed",
                                          !.trashed = TRUE],
                         ZeroContent, salt),
              fs, idx, t)

\* trashItems / restoreItems: item.Trashed = trashed; item.Save()
SetTrashed(item, trashed, fs, idx, t) ==
    ItemSave([item EXCEPT !.trashed = trashed], fs, idx, t)

\* renameItem: item.Title = newTitle; item.Save()
SetTitle(item, newTitle, fs, idx, t) ==
    ItemSave([item EXCEPT !.title = newTitle], fs, idx, t)

\* moveItemsToFolder: item.FolderUuid = folder.Uuid; item.Save().  folder is
\* the item lookupSingleItem found, or Item{}, whose Uuid is "", when it
\* found none.
SetFolder(item, folderUuid, fs, idx, t) ==
    ItemSave([item EXCEPT !.folderUuid = folderUuid], fs, idx, t)

\* Vault.LoadItem
LoadItem(fs, uuid) ==
    IF uuid \in DOMAIN fs THEN [err |-> Nil, item |-> fs[uuid]]
    ELSE [err |-> ErrNoItemFile, item |-> ZeroItem]

\* Vault.ListItems: ioutil.ReadDir lists the files by name; tombstones are
\* skipped.
MaxItems == 2
Uuids == 1..MaxItems
\* The names the data folder can hold: those of the items a user adds and
\* those of as many imported ones.
AllUuids == 1..(2 * MaxItems)
ListItemsOf(fs, names) == [k \in 1..Len(names) |-> fs[names[k]]]
IsListed(fs, uuid) == uuid \in DOMAIN fs /\ fs[uuid].typeName # Tombstone
\* A faulty ListItems: no file is skipped.
ListEveryItem(fs) ==
    ListItemsOf(fs, SelectSeq([u \in AllUuids |-> u], LAMBDA u : u \in DOMAIN fs))
ListItems(fs) ==
    ListItemsOf(fs, SelectSeq([u \in AllUuids |-> u], LAMBDA u : IsListed(fs, u)))

----------------------------------------------------------------------------
(* export.go: the .1pif folder, and the client's export and import *)

ErrPifSuffix == "Path must have a .1pif suffix"
ErrExportDir == "unable to create export dir"
ErrStatPif == "stat: no such file or directory"
ErrReadPif == "open data.1pif: no such file or directory"

PifPath == "out.1pif"
HasPifSuffix(path) == path = PifPath

\* The export folder: whether the folder and its data.1pif exist, and the
\* text of data.1pif as its chunks, each the JSON of one ExportedItem or the
\* line "***<export uuid>***".  originals is history: the items as they
\* were handed to ExportItems.
NoPif == [dir |-> FALSE, file |-> FALSE, data |-> <<>>, originals |-> <<>>]
PifSeparator == [sep |-> TRUE, item |-> ZeroItem, secureContents |-> NoBytes]

\* json.Marshal(ExportedItem{item, content}), item.Encrypted being nil
MarshalExported(item, content) ==
    [sep |-> FALSE, item |-> [item EXCEPT !.encrypted = NoBytes],
     secureContents |-> MarshalContent(content)]

\* The loop of ExportItems from item i on, with the text built so far.
RECURSIVE ExportData(_, _, _, _)
ExportDataThen(ca, items, i, data, c) ==
    IF c.err # Nil THEN [err |-> c.err, data |-> <<>>]
    ELSE ExportData(ca, items, i + 1,
                    data \o <<MarshalExported(items[i], c.content), PifSeparator>>)
ExportData(ca, items, i, data) ==
    IF i > Len(items) THEN [err |-> Nil, data |-> data]
    ELSE ExportDataThen(ca, items, i, data, Content(ca, items[i]))

\* ExportItems: the error and the folder afterwards.  os.Mkdir fails on a
\* folder that exists; an error of the loop leaves the new folder empty.
ExportItemsThen(folder, items, r) ==
    IF r.err # Nil THEN [err |-> r.err, pif |-> [folder EXCEPT !.dir = TRUE]]
    ELSE [err |-> Nil,
          pif |-> [dir |-> TRUE, file |-> TRUE, data |-> r.data, originals |-> items]]
ExportItems(ca, items, path, folder) ==
    IF ~HasPifSuffix(path) THEN [err |-> ErrPifSuffix, pif |-> folder]
    ELSE IF folder.dir THEN [err |-> ErrExportDir, pif |-> folder]
    ELSE ExportItemsThen(folder, items, ExportData(ca, items, 1, <<>>))

\* lookupItems: the listed items whose title contains the pattern.
lookupItems(fs, pattern) ==
    SelectSeq(ListItems(fs), LAMBDA item : pattern = "" \/ item.title = pattern)

\* The loop of ImportItems over the pieces re.Split leaves, from piece i on.
RECURSIVE UnmarshalExported(_, _, _)
UnmarshalExportedThen(pieces, i, items, c) ==
    IF c.err # Nil THEN [err |-> c.err, items |-> <<>>]
    ELSE UnmarshalExported(pieces, i + 1,
                           Append(items, [item |-> pieces[i].item,
                                          secureContents |-> c.content]))
UnmarshalExported(pieces, i, items) ==
    IF i > Len(pieces) THEN [err |-> Nil, items |-> items]
    ELSE UnmarshalExportedThen(pieces, i, items, UnmarshalContent(pieces[i].secureContents))

\* A faulty ImportItems: what follows the first separator is not read.
ImportFirstOnly(folder) ==
    IF ~folder.dir THEN [err |-> ErrStatPif, items |-> <<>>]
    ELSE IF ~folder.file THEN [err |-> ErrReadPif, items |-> <<>>]
    ELSE UnmarshalExported(SubSeq(folder.data, 1, IF Len(folder.data) > 0 THEN 1 ELSE 0),
                           1, <<>>)

\* ImportItems on the folder: the text is split at the separator lines and
\* the empty pieces are skipped.
ImportItems(folder) ==
    IF ~folder.dir THEN [err |-> ErrStatPif, items |-> <<>>]
    ELSE IF ~folder.file THEN [err |-> ErrReadPif, items |-> <<>>]
    ELSE UnmarshalExported(SelectSeq(folder.data, LAMBDA chunk : ~chunk.sep), 1, <<>>)

\* The loop of importItems from record i on: one AddItem per record, with
\* uuids[i] what newItemId returns to it; the first error ends the process.
RECURSIVE AddImported(_, _, _, _, _, _, _, _, _)
AddImportedThen(ca, fs, idx, t, records, i, uuids, salt, added, r) ==
    IF r.err # Nil THEN [err |-> r.err, files |-> fs, contents |-> idx, items |-> added]
    ELSE AddImported(ca, r.files, r.contents, t, records, i + 1, uuids, salt,
                     Append(added, r.item))
AddImported(ca, fs, idx, t, records, i, uuids, salt, added) ==
    IF i > Len(records)
    THEN [err |-> Nil, files |-> fs, contents |-> idx, items |-> added]
    ELSE AddImportedThen(ca, fs, idx, t, records, i, uuids, salt, added,
                         AddItem(ca, fs, idx, t, records[i].item.title,
                                 records[i].item.typeName, records[i].secureContents,
                                 uuids[i], salt))

\* importItems: the error, the item files and the index afterwards, and the
\* items AddItem returned.
importItems(ca, fs, idx, t, imported, uuids, salt) ==
    IF imported.err # Nil
    THEN [err |-> imported.err, files |-> fs, contents |-> idx, items |-> <<>>]
    ELSE AddImported(ca, fs, idx, t, imported.items, 1, uuids, salt, <<>>)

----------------------------------------------------------------------------
(* The client's start (main): it connects to the agent listening at the    *)
(* socket path, replaces an agent of another binary version, and starts    *)
(* one when none answers                                                   *)

MaxVersion == 2            \* the binary is rebuilt up to this version
MaxPoll == 3               \* calls of DialAgent before maxWait has passed
MaxSpawn == 2              \* agent processes over a run of the model

NoInfo == [BinaryVersion |-> 0, Pid |-> 0]           \* AgentInfo{}
ErrDial == "dial unix: connection refused"
ErrConnectAgent == "Unable to connect to 1pass keychain agent"

\* binary: the modification time of the app binary.  listener: what the
\* agent bound to the socket path reports; signalled: it was sent SIGINT and
\* has not stopped yet; starting: agent processes started that do not
\* listen yet; spawned: agent processes so far.  The client: where it is,
\* the binary version it compared with (client), agentClient.Info (info),
\* its calls of DialAgent in the loop (attempts) and its fatal error (err).
\* mismatch, killed and started are history: the first DialAgent reached an
\* agent of another version, the pid the client signalled, and whether it
\* called startAgent.
NoBoot == [binary |-> 1, listener |-> NoInfo, signalled |-> FALSE, starting |-> 0,
           spawned |-> 0, pc |-> "idle", client |-> 0, info |-> NoInfo,
           attempts |-> 0, err |-> Nil, mismatch |-> FALSE, killed |-> 0,
           started |-> FALSE]

\* DialAgent: rpc.Dial and the Info call; answers says whether the agent at
\* the socket path, if there is one, is still there to answer.
DialAgent(listener, answers) ==
    IF listener.Pid = 0 \/ ~answers THEN [err |-> ErrDial, Info |-> NoInfo]
    ELSE [err |-> Nil, Info |-> listener]

\* main, from the first DialAgent to the call of startAgent: b is the state
\* before, d what DialAgent returned.
BootConnectThen(b, d, kill, info) ==
    [b EXCEPT !.client = b.binary,
              !.mismatch = d.err = Nil /\ d.Info.BinaryVersion # b.binary,
              !.signalled = @ \/ kill,
              !.killed = IF kill THEN d.Info.Pid ELSE 0,
              !.info = info,
              !.started = info.Pid = 0,
              !.starting = IF info.Pid = 0 THEN @ + 1 ELSE @,
              !.spawned = IF info.Pid = 0 THEN @ + 1 ELSE @,
              !.attempts = 0,
              !.err = Nil,
              !.pc = IF info.Pid = 0 THEN "poll" ELSE "run"]
BootConnectWith(b, d, kill) ==
    BootConnectThen(b, d, kill, IF kill \/ d.err # Nil THEN NoInfo ELSE d.Info)
BootConnect(b, d) ==
    BootConnectWith(b, d, d.err = Nil /\ d.Info.BinaryVersion # b.binary /\ d.Info.Pid # 0)

\* One turn of the loop that follows startAgent, and the check after it.
BootPoll(b, d) ==
    IF d.err = Nil THEN [b EXCEPT !.info = d.Info, !.attempts = @ + 1, !.pc = "run"]
    ELSE IF b.attempts + 1 < MaxPoll THEN [b EXCEPT !.attempts = @ + 1]
    ELSE [b EXCEPT !.attempts = @ + 1, !.err = ErrConnectAgent, !.pc = "failed"]

\* The agent process: agentBinaryVersion is read when it starts, and Serve
\* removes the socket file and listens at the path.
AgentServe(b) ==
    [b EXCEPT !.listener = [BinaryVersion |-> b.binary, Pid |-> b.spawned],
              !.signalled = FALSE,
              !.starting = @ - 1]

----------------------------------------------------------------------------
(* SpecAgent: one agent process; each RPC handler runs to its end before   *)
(* the next starts                                                         *)

NoCall == [op |-> "none", vault |-> Nil, level |-> Nil, in |-> NoBytes,
           err |-> Nil, out |-> NoBytes, flag |-> FALSE, items |-> <<>>,
           uuid |-> 0, content |-> ZeroContent, item |-> ZeroItem]
NoHeld == [vault |-> Nil, level |-> Nil, data |-> NoBytes, ct |-> NoBytes]

\* NewAgent; the vault and the goroutine variables are not used here.
AgentInit ==
    /\ keyFiles = InitialKeyFiles
    /\ keys = EmptyMap
    /\ timers = EmptyBag
    /\ now = 0
    /\ last = NoCall
    /\ held = NoHeld
    /\ lockedAt = [v \in AllPaths |-> 0]
    /\ timedOut = {}
    /\ cryptoAgent = NoAgent
    /\ contents = <<>>
    /\ files = EmptyMap
    /\ pc = EmptyMap
    /\ call = EmptyMap
    /\ crashed = FALSE
    /\ crypt = NoCrypt
    /\ pif = NoPif
    /\ boot = NoBoot
    /\ keysPlist = keyFiles

\* RPC OnePassAgent.Unlock
AgentUnlockThen(vaultPath, masterPwd, expireAfter, r) ==
    /\ r.timer => BagCardinality(timers) < MaxTimers
    /\ keys' = r.keys
    /\ timers' = IF r.timer THEN timers (+) Timer(vaultPath, now + expireAfter)
                 ELSE timers
    /\ lockedAt' = IF r.ok THEN [lockedAt EXCEPT ![vaultPath] = now + expireAfter]
                   ELSE lockedAt
    /\ timedOut' = IF r.ok THEN timedOut \ {vaultPath} ELSE timedOut
    /\ last' = [NoCall EXCEPT !.op = "Unlock", !.vault = vaultPath, !.in = masterPwd,
                              !.err = r.err, !.flag = r.ok]
    /\ UNCHANGED <<now, held>>
    /\ UNCHANGED notAgentVars
AgentUnlock(vaultPath, masterPwd, expireAfter) ==
    AgentUnlockThen(vaultPath, masterPwd, expireAfter,
                    OnePassAgentUnlock(keys, keyFiles,
                                       [VaultPath |-> vaultPath, MasterPwd |-> masterPwd,
                                        ExpireAfter |-> expireAfter]))

\* RPC OnePassAgent.Lock
AgentLock(vaultPath) ==
    /\ keys' = OnePassAgentLock(keys, vaultPath)
    /\ last' = [NoCall EXCEPT !.op = "Lock", !.vault = vaultPath, !.flag = TRUE]
    /\ UNCHANGED <<timers, now, held, lockedAt, timedOut>>
    /\ UNCHANGED notAgentVars

\* RPC OnePassAgent.IsLocked
AgentIsLocked(vaultPath) ==
    /\ last' = [NoCall EXCEPT !.op = "IsLocked", !.vault = vaultPath,
                              !.flag = OnePassAgentIsLocked(keys, vaultPath)]
    /\ UNCHANGED <<keys, timers, now, held, lockedAt, timedOut>>
    /\ UNCHANGED notAgentVars

\* OnePassAgentClient.Encrypt, served by OnePassAgent.Encrypt
ClientEncryptThen(vaultPath, keyName, in, r) ==
    /\ last' = [NoCall EXCEPT !.op = "Encrypt", !.vault = vaultPath,
                              !.level = keyName, !.err = r.err, !.out = r.out]
    /\ held' = IF r.err = Nil
               THEN [vault |-> vaultPath, level |-> keyName, data |-> in, ct |-> r.out]
               ELSE held
    /\ UNCHANGED <<keys, timers, now, lockedAt, timedOut>>
    /\ UNCHANGED notAgentVars
ClientEncrypt(vaultPath, keyName, in, seed) ==
    ClientEncryptThen(vaultPath, keyName, in,
                      OnePassAgentEncrypt(keys, ClientEncryptArgs(vaultPath, keyName, in),
                                          RandomBytesFor(seed, saltLen)))

\* OnePassAgentClient.Decrypt, served by OnePassAgent.Decrypt
ClientDecryptThen(vaultPath, keyName, in, r) ==
    /\ last' = [NoCall EXCEPT !.op = "Decrypt", !.vault = vaultPath,
                              !.level = keyName, !.in = in,
                              !.err = r.err, !.out = r.out]
    /\ UNCHANGED <<keys, timers, now, held, lockedAt, timedOut>>
    /\ UNCHANGED notAgentVars
ClientDecrypt(vaultPath, keyName, in) ==
    ClientDecryptThen(vaultPath, keyName, in,
                      OnePassAgentDecrypt(keys, ClientDecryptArgs(vaultPath, keyName, in)))

\* RPC OnePassAgent.RefreshAccess
AgentRefreshAccess(vaultPath, expireAfter) ==
    LET locked == OnePassAgentIsLocked(keys, vaultPath)
    IN  /\ timers' = IF locked THEN timers
                     ELSE RefreshTimers(timers, vaultPath, now + expireAfter)
        /\ lockedAt' = IF locked THEN lockedAt
                       ELSE [lockedAt EXCEPT ![vaultPath] = now + expireAfter]
        /\ last' = [NoCall EXCEPT !.op = "RefreshAccess", !.vault = vaultPath,
                                  !.err = IF locked THEN ErrNotUnlocked ELSE Nil]
        /\ UNCHANGED <<keys, now, held, timedOut>>
        /\ UNCHANGED notAgentVars

\* The callback Unlock gave time.AfterFunc runs: agent.Lock(args.VaultPath)
TimerFire(t) ==
    /\ t.at <= now
    /\ timers' = timers (-) Timer(t.vault, t.at)
    /\ keys' = OnePassAgentLock(keys, t.vault)
    /\ timedOut' = timedOut \cup {t.vault}
    /\ last' = [NoCall EXCEPT !.op = "TimerFire", !.vault = t.vault,
                              !.flag = ~OnePassAgentIsLocked(keys, t.vault)]
    /\ UNCHANGED <<now, held, lockedAt>>
    /\ UNCHANGED notAgentVars

Tick ==
    /\ now < MaxTime
    /\ now' = now + 1
    /\ UNCHANGED <<keys, timers, last, held, lockedAt, timedOut>>
    /\ UNCHANGED notAgentVars

DecryptInputs == {ShortInput} \cup (IF held = NoHeld THEN {} ELSE {held.ct})

AgentNext ==
    \/ \E v \in AllPaths, p \in Passwords, e \in ExpireChoices : AgentUnlock(v, p, e)
    \/ \E v \in AllPaths : AgentLock(v)
    \/ \E v \in AllPaths : AgentIsLocked(v)
    \/ \E v \in AllPaths, l \in Levels, d \in DataChoices, s \in Seeds :
          ClientEncrypt(v, l, d, s)
    \/ \E v \in AllPaths, l \in Levels, d \in DecryptInputs : ClientDecrypt(v, l, d)
    \/ \E v \in AllPaths, e \in ExpireChoices : AgentRefreshAccess(v, e)
    \/ \E t \in BagToSet(timers) : TimerFire(t)
    \/ Tick

SpecAgent == AgentInit /\ [][AgentNext]_vars

\* The agent left running: the clock goes on until every timer that was set
\* is due (requests that set one arrive up to MaxTime), time passes, and a
\* timer that is due runs its callback.
LiveTick ==
    /\ now < MaxTime + MaxExpire
    /\ now' = now + 1
    /\ UNCHANGED <<keys, timers, last, held, lockedAt, timedOut>>
    /\ UNCHANGED notAgentVars

LiveNext ==
    \/ \E v \in AllPaths, p \in Passwords, e \in ExpireChoices :
          now <= MaxTime /\ AgentUnlock(v, p, e)
    \/ \E v \in AllPaths : AgentLock(v)
    \/ \E v \in AllPaths : AgentIsLocked(v)
    \/ \E v \in AllPaths, e \in ExpireChoices : now <= MaxTime /\ AgentRefreshAccess(v, e)
    \/ \E t \in BagToSet(timers) : TimerFire(t)
    \/ LiveTick

SpecAgentLive ==
    /\ AgentInit
    /\ [][LiveNext]_vars
    /\ WF_vars(LiveTick)
    /\ WF_vars(\E t \in BagToSet(timers) : TimerFire(t))

----------------------------------------------------------------------------
(* SpecVault: one process working on one vault through package onepass     *)

TitleChoices == {"site"}
notVaultVarsButKeyFiles ==
    <<keys, timers, held, lockedAt, timedOut, pc, call, crashed, crypt, pif, boot>>
notVaultVars == <<keyFiles, keysPlist, notVaultVarsButKeyFiles>>

\* OpenVault on a vault NewVault made at time 1: contents.js is empty.
VaultInit ==
    /\ keyFiles = InitialKeyFiles
    /\ cryptoAgent = NoAgent
    /\ contents = <<>>
    /\ files = EmptyMap
    /\ now = 1
    /\ last = NoCall
    /\ keys = EmptyMap
    /\ timers = EmptyBag
    /\ held = NoHeld
    /\ lockedAt = [v \in AllPaths |-> 0]
    /\ timedOut = {}
    /\ pc = EmptyMap
    /\ call = EmptyMap
    /\ crashed = FALSE
    /\ crypt = NoCrypt
    /\ pif = NoPif
    /\ boot = NoBoot
    /\ keysPlist = keyFiles

\* vault.Unlock(pwd)
DoUnlockThen(pwd, r) ==
    /\ cryptoAgent' = r.cryptoAgent
    /\ last' = [NoCall EXCEPT !.op = "Unlock", !.in = pwd, !.err = r.err,
                              !.flag = VaultIsLocked(r.cryptoAgent)]
    /\ UNCHANGED <<contents, files, now>>
    /\ UNCHANGED notVaultVars
DoUnlock(pwd) == DoUnlockThen(pwd, VaultUnlock(keyFiles[VaultA], pwd))

\* vault.Lock()
DoLock ==
    /\ cryptoAgent' = VaultLock(cryptoAgent)
    /\ last' = [NoCall EXCEPT !.op = "Lock", !.flag = VaultIsLocked(VaultLock(cryptoAgent))]
    /\ UNCHANGED <<contents, files, now>>
    /\ UNCHANGED notVaultVars

\* What an operation on an item leaves: the item files and the index, and
\* the item the caller holds.
ItemDone(op, uuid, content, r) ==
    /\ files' = r.files
    /\ contents' = r.contents
    /\ last' = [NoCall EXCEPT !.op = op, !.err = r.err, !.uuid = uuid,
                              !.content = content, !.item = r.item]
    /\ UNCHANGED <<cryptoAgent, now>>
    /\ UNCHANGED notVaultVars

\* vault.AddItem(title, itemType, content)
DoAddItem(title, itemType, content, uuid, seed) ==
    /\ uuid \notin DOMAIN files
    /\ ItemDone("AddItem", uuid, content,
                AddItem(cryptoAgent, files, contents, now, title, itemType,
                        content, uuid, RandomBytesFor(seed, saltLen)))

\* The operations below work on the item vault.LoadItem(uuid) returns, as
\* the commands of the client do on the items they look up.

\* item.Save()
DoSave(uuid) ==
    /\ uuid \in DOMAIN files
    /\ ItemDone("Save", uuid, ZeroContent, ItemSave(LoadItem(files, uuid).item, files, contents, now))

\* trashItems: item.Trashed = true; item.Save()
DoTrash(uuid) ==
    /\ uuid \in DOMAIN files
    /\ ItemDone("Trash", uuid, ZeroContent,
                SetTrashed(LoadItem(files, uuid).item, TRUE, files, contents, now))

\* restoreItems: item.Trashed = false; item.Save()
DoRestore(uuid) ==
    /\ uuid \in DOMAIN files
    /\ ItemDone("Restore", uuid, ZeroContent,
                SetTrashed(LoadItem(files, uuid).item, FALSE, files, contents, now))

\* item.Remove()
DoRemove(uuid, seed) ==
    /\ uuid \in DOMAIN files
    /\ ItemDone("Remove", uuid, ZeroContent,
                Remove(cryptoAgent, LoadItem(files, uuid).item, files, contents,
                       now, RandomBytesFor(seed, saltLen)))

\* vault.ListItems()
DoListItems ==
    /\ last' = [NoCall EXCEPT !.op = "ListItems", !.items = ListItems(files)]
    /\ UNCHANGED <<cryptoAgent, contents, files, now>>
    /\ UNCHANGED notVaultVars

\* time.Now() moves on.
VaultTick ==
    /\ now < MaxTime
    /\ now' = now + 1
    /\ UNCHANGED <<cryptoAgent, contents, files, last>>
    /\ UNCHANGED notVaultVars

VaultNext ==
    \/ \E p \in Passwords : DoUnlock(p)
    \/ DoLock
    \/ \E ti \in TitleChoices, c \in ContentChoices, u \in Uuids, s \in Seeds :
          DoAddItem(ti, WebForm, c, u, s)
    \/ \E u \in Uuids : DoSave(u)
    \/ \E u \in Uuids : DoTrash(u)
    \/ \E u \in Uuids : DoRestore(u)
    \/ \E u \in Uuids, s \in Seeds : DoRemove(u, s)
    \/ DoListItems
    \/ VaultTick

SpecVault == VaultInit /\ [][VaultNext]_vars

----------------------------------------------------------------------------
(* SpecItem: a vault from its creation on, with one item that is added,    *)
(* edited, read and removed, and a master password that is changed         *)

ItemUuids == {1}
TypeChoices == {WebForm, CustomType}
AllContents == {ZeroContent, EmptyContent, SiteContent, OtherContent}
IterationChoices == {0, testIterations}

\* No vault on disk yet.
ItemInit ==
    /\ keyFiles = [v \in AllPaths |-> Unreadable]
    /\ cryptoAgent = NoAgent
    /\ contents = <<>>
    /\ files = EmptyMap
    /\ now = 1
    /\ last = NoCall
    /\ keys = EmptyMap
    /\ timers = EmptyBag
    /\ held = NoHeld
    /\ lockedAt = [v \in AllPaths |-> 0]
    /\ timedOut = {}
    /\ pc = EmptyMap
    /\ call = EmptyMap
    /\ crashed = FALSE
    /\ crypt = NoCrypt
    /\ pif = NoPif
    /\ boot = NoBoot
    /\ keysPlist = keyFiles

\* NewVault(vaultPath, security); the caller goes on with the vault returned.
DoNewVaultThen(vaultPath, masterPwd, r) ==
    /\ keyFiles' = IF r.err = Nil THEN [keyFiles EXCEPT ![vaultPath] = r.keyFile]
                   ELSE keyFiles
    /\ keysPlist' = IF r.err = Nil THEN [keysPlist EXCEPT ![vaultPath] = r.keyFile]
                    ELSE keysPlist
    /\ contents' = IF r.created THEN <<>> ELSE contents
    /\ cryptoAgent' = IF r.err = Nil THEN NoAgent ELSE cryptoAgent
    /\ last' = [NoCall EXCEPT !.op = "NewVault", !.vault = vaultPath, !.in = masterPwd,
                              !.err = r.err, !.flag = r.created]
    /\ UNCHANGED <<files, now>>
    /\ UNCHANGED notVaultVarsButKeyFiles
DoNewVault(vaultPath, masterPwd, iterations) ==
    DoNewVaultThen(vaultPath, masterPwd,
                   NewVault(keyFiles, vaultPath, masterPwd, iterations, "KEY-A",
                            KeySeedBase + 1, 1, 2))

\* vault.SetMasterPassword(currentPwd, newPwd)
DoSetMasterPasswordThen(currentPwd, newPwd, r) ==
    /\ keyFiles' = [keyFiles EXCEPT ![VaultA] = r.keyFile]
    /\ keysPlist' = IF r.err = Nil THEN [keysPlist EXCEPT ![VaultA] = r.keyFile]
                    ELSE keysPlist
    /\ last' = [NoCall EXCEPT !.op = "SetMasterPassword", !.in = currentPwd,
                              !.out = newPwd, !.err = r.err]
    /\ UNCHANGED <<cryptoAgent, contents, files, now>>
    /\ UNCHANGED notVaultVarsButKeyFiles
DoSetMasterPassword(currentPwd, newPwd, saltSeed, vSaltSeed) ==
    DoSetMasterPasswordThen(currentPwd, newPwd,
                            SetMasterPassword(keyFiles[VaultA], currentPwd, newPwd,
                                              RandomBytesFor(saltSeed, saltLen),
                                              RandomBytesFor(vSaltSeed, saltLen)))

\* editItem: item.SetContent(content); item.Save(), on the item looked up.
DoSetContent(uuid, content, seed) ==
    /\ uuid \in DOMAIN files
    /\ ItemDone("SetContent", uuid, content,
                SaveIfSet(SetContent(cryptoAgent, LoadItem(files, uuid).item, content,
                                     RandomBytesFor(seed, saltLen)),
                          files, contents, now))

\* item.Content() on the item vault.LoadItem(uuid) returns
DoContentThen(uuid, item, r) ==
    /\ last' = [NoCall EXCEPT !.op = "Content", !.uuid = uuid, !.err = r.err,
                              !.content = r.content, !.item = item]
    /\ UNCHANGED <<cryptoAgent, contents, files, now>>
    /\ UNCHANGED notVaultVars
DoContent(uuid) ==
    /\ uuid \in DOMAIN files
    /\ DoContentThen(uuid, LoadItem(files, uuid).item,
                     Content(cryptoAgent, LoadItem(files, uuid).item))

\* item.Save() on an item without a body: one the caller has built as
\* AddItem does and not given any content (built = TRUE), or the item on
\* disk after an Encrypt that failed has left item.Encrypted nil.
UnsetItem(built, title, uuid) ==
    IF built THEN [ZeroItem EXCEPT !.title = title, !.securityLevel = "SL5",
                                   !.typeName = WebForm, !.uuid = uuid]
    ELSE [LoadItem(files, uuid).item EXCEPT !.encrypted = NoBytes]
DoSaveUnsetThen(item, r) ==
    /\ files' = r.files
    /\ contents' = r.contents
    /\ last' = [NoCall EXCEPT !.op = "SaveUnset", !.err = r.err, !.uuid = item.uuid,
                              !.items = <<item>>, !.item = r.item]
    /\ UNCHANGED <<cryptoAgent, now>>
    /\ UNCHANGED notVaultVars
DoSaveUnset(built, title, uuid) ==
    /\ built \/ uuid \in DOMAIN files
    /\ DoSaveUnsetThen(UnsetItem(built, title, uuid),
                       ItemSave(UnsetItem(built, title, uuid), files, contents, now))

ItemNext ==
    \/ \E v \in {VaultA, BadPath}, p \in Passwords, n \in IterationChoices :
          DoNewVault(v, p, n)
    \/ \E p \in Passwords : DoUnlock(p)
    \/ DoLock
    \/ \E p, q \in Passwords, s, vs \in Seeds : DoSetMasterPassword(p, q, s, vs)
    \/ \E ti \in TitleChoices, ty \in TypeChoices, c \in AllContents, u \in ItemUuids,
          s \in Seeds : DoAddItem(ti, ty, c, u, s)
    \/ \E u \in ItemUuids, c \in AllContents, s \in Seeds : DoSetContent(u, c, s)
    \/ \E u \in ItemUuids, s \in Seeds : DoRemove(u, s)
    \/ \E u \in ItemUuids : DoContent(u)
    \/ \E b \in BOOLEAN, ti \in TitleChoices, u \in ItemUuids : DoSaveUnset(b, ti, u)

SpecItem == ItemInit /\ [][ItemNext]_vars

----------------------------------------------------------------------------
(* SpecExport: a vault whose items are exported to a .1pif folder and      *)
(* imported from it                                                        *)

ExportTitles == {"site", "mail"}
ExportPatterns == {"", "site"}
ExportPaths == {"out", PifPath}
notExportVars ==
    <<keyFiles, keys, timers, held, lockedAt, timedOut, pc, call, crashed, crypt, boot,
      keysPlist>>

\* OpenVault on a vault NewVault made, and no export folder.
ExportInit ==
    /\ keyFiles = InitialKeyFiles
    /\ cryptoAgent = NoAgent
    /\ contents = <<>>
    /\ files = EmptyMap
    /\ pif = NoPif
    /\ boot = NoBoot
    /\ keysPlist = keyFiles
    /\ now = 1
    /\ last = NoCall
    /\ keys = EmptyMap
    /\ timers = EmptyBag
    /\ held = NoHeld
    /\ lockedAt = [v \in AllPaths |-> 0]
    /\ timedOut = {}
    /\ pc = EmptyMap
    /\ call = EmptyMap
    /\ crashed = FALSE
    /\ crypt = NoCrypt

\* exportItems(vault, pattern, path): the suffix is added to a path
\* without it.
DoExportItemsThen(r) ==
    /\ pif' = r.pif
    /\ last' = [NoCall EXCEPT !.op = "Export", !.err = r.err]
    /\ UNCHANGED <<cryptoAgent, contents, files, now>>
    /\ UNCHANGED notExportVars
DoExportItems(pattern, path) ==
    DoExportItemsThen(ExportItems(cryptoAgent, lookupItems(files, pattern),
                                  IF HasPifSuffix(path) THEN path ELSE PifPath, pif))

\* The uuids newItemId can return to n calls: n names not in use.
FreshUuids(fs, n) ==
    {s \in [1..n -> AllUuids \ DOMAIN fs] : \A i, j \in 1..n : s[i] = s[j] => i = j}

\* importItems(vault, path)
DoImportItemsThen(r) ==
    /\ files' = r.files
    /\ contents' = r.contents
    /\ last' = [NoCall EXCEPT !.op = "Import", !.err = r.err, !.items = r.items]
    /\ UNCHANGED <<cryptoAgent, now, pif>>
    /\ UNCHANGED notExportVars
DoImportItemsWith(imported, seed) ==
    \E uuids \in FreshUuids(files, Len(imported.items)) :
        DoImportItemsThen(importItems(cryptoAgent, files, contents, now, imported, uuids,
                                      RandomBytesFor(seed, saltLen)))
DoImportItems(seed) == DoImportItemsWith(ImportItems(pif), seed)

ExportNext ==
    \/ \E p \in Passwords : DoUnlock(p)
    \/ DoLock
    \/ \E ti \in ExportTitles, ty \in TypeChoices, c \in ContentChoices, u \in Uuids,
          s \in Seeds : DoAddItem(ti, ty, c, u, s)
    \/ \E pa \in ExportPatterns, path \in ExportPaths : DoExportItems(pa, path)
    \/ \E s \in Seeds : DoImportItems(s)
    \/ DoListItems

SpecExport == ExportInit /\ [][ExportNext]_vars

----------------------------------------------------------------------------
(* SpecRace: the agent under rpcServer.Accept, which serves every request  *)
(* in a goroutine of its own; time.AfterFunc runs its callback in another. *)
(* A handler is called, is inside its access to agent.keys, and returns.   *)
(* The clock is left out: a callback may run at any moment after AfterFunc.*)

MaxCalls == 2                      \* goroutines that can be running at once
Goroutines == 1..MaxCalls

IdleCall == [op |-> "none", pwd |-> NoBytes]
RaceCalls ==
    {[op |-> "Unlock", pwd |-> p] : p \in Passwords}
        \cup {[op |-> o, pwd |-> NoBytes] : o \in {"Lock", "IsLocked", "Encrypt", "Decrypt"}}
AutoLockCall == [op |-> "AutoLock", pwd |-> NoBytes]

\* The handlers that assign to or delete from agent.keys.
WritesMap(c) == c.op \in {"Unlock", "Lock", "AutoLock"}

\* Two goroutines are inside the map at once and one of them writes it.
DataRace(g, h) ==
    /\ g # h
    /\ pc[g] = "inMap" /\ pc[h] = "inMap"
    /\ WritesMap(call[g]) \/ WritesMap(call[h])

notRaceVars ==
    <<keyFiles, now, held, lockedAt, timedOut, cryptoAgent, contents, files, crypt, pif, boot,
      keysPlist>>

RaceInit ==
    /\ keyFiles = InitialKeyFiles
    /\ keys = EmptyMap
    /\ timers = EmptyBag
    /\ pc = [g \in Goroutines |-> "idle"]
    /\ call = [g \in Goroutines |-> IdleCall]
    /\ crashed = FALSE
    /\ crypt = NoCrypt
    /\ pif = NoPif
    /\ boot = NoBoot
    /\ keysPlist = keyFiles
    /\ last = NoCall
    /\ now = 0
    /\ held = NoHeld
    /\ lockedAt = [v \in AllPaths |-> 0]
    /\ timedOut = {}
    /\ cryptoAgent = NoAgent
    /\ contents = <<>>
    /\ files = EmptyMap

UnlocksInFlight == {g \in Goroutines : call[g].op = "Unlock"}

\* A request arrives: the server starts its handler.
RaceCall(g, c) ==
    /\ ~crashed
    /\ pc[g] = "idle"
    /\ c.op = "Unlock" => BagCardinality(timers) + Cardinality(UnlocksInFlight) < MaxTimers
    /\ pc' = [pc EXCEPT ![g] = "called"]
    /\ call' = [call EXCEPT ![g] = c]
    /\ UNCHANGED <<keys, timers, last, crashed>>
    /\ UNCHANGED notRaceVars

\* A timer set by Unlock expires: its callback starts.
RaceTimer(g, t) ==
    /\ ~crashed
    /\ pc[g] = "idle"
    /\ pc' = [pc EXCEPT ![g] = "called"]
    /\ call' = [call EXCEPT ![g] = AutoLockCall]
    /\ timers' = timers (-) Timer(t.vault, t.at)
    /\ UNCHANGED <<keys, last, crashed>>
    /\ UNCHANGED notRaceVars

UnlockFails(c) ==
    c.op = "Unlock" /\ UnlockKeys(keyFiles[VaultA], c.pwd).err # Nil

\* Unlock returns the error of UnlockKeys before it touches the map.
RaceUnlockFailed(g) ==
    /\ ~crashed
    /\ pc[g] = "called"
    /\ UnlockFails(call[g])
    /\ pc' = [pc EXCEPT ![g] = "idle"]
    /\ call' = [call EXCEPT ![g] = IdleCall]
    /\ last' = [NoCall EXCEPT !.op = "Unlock", !.vault = VaultA, !.in = call[g].pwd,
                              !.err = UnlockKeys(keyFiles[VaultA], call[g].pwd).err]
    /\ UNCHANGED <<keys, timers, crashed>>
    /\ UNCHANGED notRaceVars

\* The handler reaches its access to agent.keys; nothing holds it back.
RaceEnter(g) ==
    /\ ~crashed
    /\ pc[g] = "called"
    /\ ~UnlockFails(call[g])
    /\ pc' = [pc EXCEPT ![g] = "inMap"]
    /\ UNCHANGED <<keys, timers, last, call, crashed>>
    /\ UNCHANGED notRaceVars

\* The map after the handler's access, and the reply.
RaceKeys(c) ==
    CASE c.op = "Unlock" ->
            OnePassAgentUnlock(keys, keyFiles,
                               [VaultPath |-> VaultA, MasterPwd |-> c.pwd,
                                ExpireAfter |-> 1]).keys
      [] c.op \in {"Lock", "AutoLock"} -> OnePassAgentLock(keys, VaultA)
      [] OTHER -> keys
RaceReply(c) ==
    CASE c.op = "IsLocked" ->
            [NoCall EXCEPT !.op = c.op, !.vault = VaultA,
                           !.flag = OnePassAgentIsLocked(keys, VaultA)]
      [] c.op = "Encrypt" ->
            [NoCall EXCEPT !.op = c.op, !.vault = VaultA, !.level = "SL5",
                           !.err = OnePassAgentEncrypt(keys,
                                       ClientEncryptArgs(VaultA, "SL5", ShortInput),
                                       RandomBytesFor(1, saltLen)).err]
      [] c.op = "Decrypt" ->
            [NoCall EXCEPT !.op = c.op, !.vault = VaultA, !.level = "SL5",
                           !.in = ShortInput,
                           !.err = OnePassAgentDecrypt(keys,
                                       ClientDecryptArgs(VaultA, "SL5", ShortInput)).err]
      [] OTHER -> [NoCall EXCEPT !.op = c.op, !.vault = VaultA, !.in = c.pwd]

\* The handler finishes its access and returns.
RaceLeave(g) ==
    /\ ~crashed
    /\ pc[g] = "inMap"
    /\ keys' = RaceKeys(call[g])
    /\ timers' = IF call[g].op = "Unlock" THEN timers (+) Timer(VaultA, 1) ELSE timers
    /\ last' = RaceReply(call[g])
    /\ pc' = [pc EXCEPT ![g] = "idle"]
    /\ call' = [call EXCEPT ![g] = IdleCall]
    /\ UNCHANGED crashed
    /\ UNCHANGED notRaceVars

\* A data race on a Go map: the run may go on as if nothing happened (the
\* other actions), or the runtime stops the process ("concurrent map
\* writes", "concurrent map read and map write").
RaceFault(g, h) ==
    /\ ~crashed
    /\ DataRace(g, h)
    /\ crashed' = TRUE
    /\ UNCHANGED <<keys, timers, last, pc, call>>
    /\ UNCHANGED notRaceVars

RaceNext ==
    \/ \E g \in Goroutines, c \in RaceCalls : RaceCall(g, c)
    \/ \E g \in Goroutines, t \in BagToSet(timers) : RaceTimer(g, t)
    \/ \E g \in Goroutines : RaceUnlockFailed(g)
    \/ \E g \in Goroutines : RaceEnter(g)
    \/ \E g \in Goroutines : RaceLeave(g)
    \/ \E g, h \in Goroutines : RaceFault(g, h)

SpecRace == RaceInit /\ [][RaceNext]_vars

----------------------------------------------------------------------------
(* SpecCrypto: the padding, CBC and key envelope helpers, each applied to  *)
(* arguments drawn at the start                                            *)

MaxPlainLen == 33                  \* plaintexts of 1..MaxPlainLen bytes
LastBytes == {0, 1, 15, 16, 17, 255}
\* Plaintexts: drawn bytes, and bytes that look like padding.
PlainInputs ==
    {RandomBytesFor(1, n) : n \in 1..MaxPlainLen}
        \cup {Fill(b, n) : b \in {0, 16}, n \in 1..MaxPlainLen}
\* What CryptBlocks can leave: no block, one block or two, with any last byte.
BlockInputs ==
    {NoBytes} \cup {Fill(1, 15) \o <<b>> : b \in LastBytes}
              \cup {Fill(7, 31) \o <<b>> : b \in LastBytes}
CbcTestKey == Md5Sum(<<1>>)
CbcTestIv == Md5Sum(<<2>>)
KeyIterations == {1, testIterations}
KeyPasswords == Passwords \cup {NoBytes}

PwdSeeds == 1..8
CryptInputs ==
    {[NoCrypt EXCEPT !.kind = "plain", !.s = s] : s \in PlainInputs}
        \cup {[NoCrypt EXCEPT !.kind = "blocks", !.s = b, !.data = b] :
                  b \in BlockInputs \cup {ShortInput}}
        \cup {[NoCrypt EXCEPT !.kind = "cipher", !.s = b,
                              !.data = CbcEncryptBlocks(CbcTestKey, b, CbcTestIv, 1)] :
                  b \in BlockInputs}
        \cup {[NoCrypt EXCEPT !.kind = "key", !.pwd = p, !.iterations = n,
                              !.key = RandomBytesFor(KeySeedBase + k, agileKeychainKeyLen),
                              !.salt = RandomBytesFor(k, saltLen),
                              !.vSalt = RandomBytesFor(k + 1, saltLen)] :
                  p \in KeyPasswords, n \in KeyIterations, k \in Seeds}
        \cup {[NoCrypt EXCEPT !.kind = "password", !.length = n, !.seed = k] :
                  n \in 3..MaxPwdLen, k \in PwdSeeds}

CryptoInit ==
    /\ crypt \in CryptInputs
    /\ keyFiles = InitialKeyFiles
    /\ keys = EmptyMap
    /\ timers = EmptyBag
    /\ now = 0
    /\ last = NoCall
    /\ held = NoHeld
    /\ lockedAt = [v \in AllPaths |-> 0]
    /\ timedOut = {}
    /\ cryptoAgent = NoAgent
    /\ contents = <<>>
    /\ files = EmptyMap
    /\ pc = EmptyMap
    /\ call = EmptyMap
    /\ crashed = FALSE
    /\ pif = NoPif
    /\ boot = NoBoot
    /\ keysPlist = keyFiles

notCryptVars == <<keyFiles, keys, timers, now, last, held, lockedAt, timedOut,
                  cryptoAgent, contents, files, pc, call, crashed, pif, boot, keysPlist>>

\* padded := aesAddPadding(s)
ApplyAddPadding ==
    /\ crypt.kind = "plain" /\ crypt.op = "none"
    /\ crypt' = [crypt EXCEPT !.op = "aesAddPadding", !.data = aesAddPadding(crypt.s)]
    /\ UNCHANGED notCryptVars

\* aesStripPadding, of what aesAddPadding returned or of drawn blocks
ApplyStripPadding ==
    /\ \/ crypt.kind = "plain" /\ crypt.op = "aesAddPadding"
       \/ crypt.kind = "blocks" /\ crypt.op = "none"
    /\ crypt' = [crypt EXCEPT !.op = "aesStripPadding",
                              !.stripped = aesStripPadding(crypt.data)]
    /\ UNCHANGED notCryptVars

\* aesCbcDecrypt of a ciphertext whose blocks decrypt to s
ApplyCbcDecrypt ==
    /\ crypt.kind = "cipher" /\ crypt.op = "none"
    /\ crypt' = [crypt EXCEPT !.op = "aesCbcDecrypt",
                              !.stripped = aesCbcDecrypt(CbcTestKey, crypt.data, CbcTestIv)]
    /\ UNCHANGED notCryptVars

\* encryptKey(pwd, key, salt, iterations)
ApplyEncryptKey ==
    /\ crypt.kind = "key" /\ crypt.op = "none"
    /\ crypt' = [crypt EXCEPT !.op = "encryptKey",
                              !.enc = encryptKey(crypt.pwd, crypt.key, crypt.salt,
                                                 crypt.iterations, crypt.vSalt)]
    /\ UNCHANGED notCryptVars

\* decryptKey(pwd, encryptedKey, salt, iterations, validation) of what
\* encryptKey returned
ApplyDecryptKey ==
    /\ crypt.kind = "key" /\ crypt.op = "encryptKey"
    /\ crypt' = [crypt EXCEPT !.op = "decryptKey",
                              !.dec = decryptKey(crypt.pwd, crypt.enc.encryptedKey,
                                                 crypt.salt, crypt.iterations,
                                                 crypt.enc.validation)]
    /\ UNCHANGED notCryptVars

\* genPasswordCandidate(length)
ApplyGenCandidate ==
    /\ crypt.kind = "password" /\ crypt.op = "none" /\ crypt.length >= 4
    /\ crypt' = [crypt EXCEPT !.op = "genPasswordCandidate",
                              !.s = genPasswordCandidate(crypt.length, crypt.seed)]
    /\ UNCHANGED notCryptVars

\* GenPassword(length)
ApplyGenPassword ==
    /\ crypt.kind = "password" /\ crypt.op # "GenPassword"
    /\ crypt' = [crypt EXCEPT !.op = "GenPassword",
                              !.dec = GenPassword(crypt.length, crypt.seed, MaxDraws)]
    /\ UNCHANGED notCryptVars

CryptoNext ==
    \/ ApplyGenCandidate
    \/ ApplyGenPassword
    \/ ApplyAddPadding
    \/ ApplyStripPadding
    \/ ApplyCbcDecrypt
    \/ ApplyEncryptKey
    \/ ApplyDecryptKey

SpecCrypto == CryptoInit /\ [][CryptoNext]_vars

----------------------------------------------------------------------------
(* SpecSave: Item.Save one file access at a time, in client processes that *)
(* work on the same vault; each access to a file can fail                  *)

MaxWriters == 2                    \* client processes saving at once
Writers == 1..MaxWriters
NoSave == [item |-> ZeroItem, entries |-> <<>>]
notSaveVars == <<keyFiles, keys, timers, now, held, lockedAt, timedOut, cryptoAgent,
                 crashed, crypt, pif, boot, keysPlist>>

\* The vault after vault.Unlock with the master password; nobody saves.
SaveInit ==
    /\ keyFiles = InitialKeyFiles
    /\ cryptoAgent = VaultUnlock(InitialKeyFiles[VaultA], PwdTest).cryptoAgent
    /\ contents = <<>>
    /\ files = EmptyMap
    /\ pc = [w \in Writers |-> "idle"]
    /\ call = [w \in Writers |-> NoSave]
    /\ now = 1
    /\ last = NoCall
    /\ keys = EmptyMap
    /\ timers = EmptyBag
    /\ held = NoHeld
    /\ lockedAt = [v \in AllPaths |-> 0]
    /\ timedOut = {}
    /\ crashed = FALSE
    /\ crypt = NoCrypt
    /\ pif = NoPif
    /\ boot = NoBoot
    /\ keysPlist = keyFiles

\* Save has checked the item and set its timestamps: r is what the whole
\* of the call returns when no file access fails.
SaveBegin(w, r) ==
    /\ pc[w] = "idle"
    /\ r.err = Nil
    /\ \A v \in Writers : pc[v] # "idle" => call[v].item.uuid # r.item.uuid
    /\ pc' = [pc EXCEPT ![w] = "ready"]
    /\ call' = [call EXCEPT ![w] = [item |-> r.item, entries |-> <<>>]]
    /\ UNCHANGED <<files, contents, last>>
    /\ UNCHANGED notSaveVars

\* vault.AddItem, up to the first write of Save
SaveBeginAdd(w, uuid, content, seed) ==
    /\ uuid \notin DOMAIN files
    /\ SaveBegin(w, AddItem(cryptoAgent, files, contents, now, "site", WebForm, content,
                            uuid, RandomBytesFor(seed, saltLen)))

\* trashItems / restoreItems, up to the first write of Save
SaveBeginTrash(w, uuid, trashed) ==
    /\ uuid \in DOMAIN files
    /\ SaveBegin(w, SetTrashed(LoadItem(files, uuid).item, trashed, files, contents, now))

\* Save returns: with an error when a file access failed.
SaveReturn(w, err) ==
    /\ pc' = [pc EXCEPT ![w] = "idle"]
    /\ call' = [call EXCEPT ![w] = NoSave]
    /\ last' = [NoCall EXCEPT !.op = "Save", !.err = err, !.uuid = call[w].item.uuid,
                              !.item = call[w].item]

\* jsonutil.WriteFile(itemPath, item)
SaveWriteFile(w, ok) ==
    /\ pc[w] = "ready"
    /\ IF ok
       THEN /\ files' = SaveWrite("ready", call[w].item, files, contents, <<>>).files
            /\ contents' = SaveWrite("ready", call[w].item, files, contents, <<>>).contents
            /\ pc' = [pc EXCEPT ![w] = "fileWritten"]
            /\ UNCHANGED <<call, last>>
       ELSE /\ SaveReturn(w, ErrSaveItem)
            /\ UNCHANGED <<files, contents>>
    /\ UNCHANGED notSaveVars

\* jsonutil.ReadFile(contentsFilePath, &contentsEntries)
SaveReadIndex(w, ok) ==
    /\ pc[w] = "fileWritten"
    /\ IF ok
       THEN /\ call' = [call EXCEPT ![w].entries = contents]
            /\ pc' = [pc EXCEPT ![w] = "indexRead"]
            /\ UNCHANGED last
       ELSE SaveReturn(w, ErrReadContents)
    /\ UNCHANGED <<files, contents>>
    /\ UNCHANGED notSaveVars

\* jsonutil.WriteFile(contentsFilePath, contentsEntries)
SaveWriteIndex(w, ok) ==
    /\ pc[w] = "indexRead"
    /\ IF ok
       THEN /\ files' = SaveWrite("indexRead", call[w].item, files, contents,
                                  call[w].entries).files
            /\ contents' = SaveWrite("indexRead", call[w].item, files, contents,
                                     call[w].entries).contents
            /\ SaveReturn(w, Nil)
       ELSE /\ SaveReturn(w, ErrUpdateContents)
            /\ UNCHANGED <<files, contents>>
    /\ UNCHANGED notSaveVars

SaveNext ==
    \/ \E w \in Writers, u \in Uuids, c \in ContentChoices, s \in Seeds :
          SaveBeginAdd(w, u, c, s)
    \/ \E w \in Writers, u \in Uuids, tr \in BOOLEAN : SaveBeginTrash(w, u, tr)
    \/ \E w \in Writers, ok \in BOOLEAN : SaveWriteFile(w, ok)
    \/ \E w \in Writers, ok \in BOOLEAN : SaveReadIndex(w, ok)
    \/ \E w \in Writers, ok \in BOOLEAN : SaveWriteIndex(w, ok)

SpecSave == SaveInit /\ [][SaveNext]_vars

----------------------------------------------------------------------------
(* SpecEdit: the commands that set one field of an item and save it, on    *)
(* an unlocked vault with a clock                                          *)

EditTitles == {"site", "mail"}
FolderUuids == {"", "folder-1"}

\* The vault after NewVault and vault.Unlock with the master password.
EditInit ==
    /\ keyFiles = InitialKeyFiles
    /\ keysPlist = keyFiles
    /\ cryptoAgent = VaultUnlock(InitialKeyFiles[VaultA], PwdTest).cryptoAgent
    /\ contents = <<>>
    /\ files = EmptyMap
    /\ now = 1
    /\ last = NoCall
    /\ keys = EmptyMap
    /\ timers = EmptyBag
    /\ held = NoHeld
    /\ lockedAt = [v \in AllPaths |-> 0]
    /\ timedOut = {}
    /\ pc = EmptyMap
    /\ call = EmptyMap
    /\ crashed = FALSE
    /\ crypt = NoCrypt
    /\ pif = NoPif
    /\ boot = NoBoot

\* renameItem, on the item looked up
DoRename(uuid, newTitle) ==
    /\ uuid \in DOMAIN files
    /\ ItemDone("Rename", uuid, ZeroContent,
                SetTitle(LoadItem(files, uuid).item, newTitle, files, contents, now))

\* moveItemsToFolder, for one of the items looked up
DoMove(uuid, folderUuid) ==
    /\ uuid \in DOMAIN files
    /\ ItemDone("Move", uuid, ZeroContent,
                SetFolder(LoadItem(files, uuid).item, folderUuid, files, contents, now))

EditNext ==
    \/ \E u \in Uuids, s \in Seeds : DoAddItem("site", WebForm, SiteContent, u, s)
    \/ \E u \in Uuids : DoTrash(u)
    \/ \E u \in Uuids : DoRestore(u)
    \/ \E u \in Uuids, ti \in EditTitles : DoRename(u, ti)
    \/ \E u \in Uuids, f \in FolderUuids : DoMove(u, f)
    \/ VaultTick

SpecEdit == EditInit /\ [][EditNext]_vars

----------------------------------------------------------------------------
(* SpecKeys: the master password of a vault that another application has   *)
(* written, with an item key for each of two security levels; a write of   *)
(* a key file can fail                                                     *)

\* encryptionKeys.js with the keys of SL5 and SL3, each under its password.
TwoKeyList(pwd5, pwd3) ==
    [ok |-> TRUE,
     list |-> <<NewKeyEntry(pwd5, testIterations, "SL5", "KEY-A", KeySeedBase + 1, 1, 2),
                NewKeyEntry(pwd3, testIterations, "SL3", "KEY-B", KeySeedBase + 2, 1, 2)>>,
     SL5 |-> "KEY-A"]
\* The same with the data of entry i cut short.
CutEntry(keyFile, i) ==
    [keyFile EXCEPT !.list[i].data = SubSeq(@, 1, Len(@) - 1)]
KeyFileChoices ==
    {TwoKeyList(PwdTest, PwdTest), TwoKeyList(PwdTest, PwdWrong),
     TwoKeyList(PwdWrong, PwdTest), CutEntry(TwoKeyList(PwdTest, PwdTest), 2)}

KeysInit ==
    /\ keyFiles \in {[v \in AllPaths |-> IF v = VaultA THEN k ELSE Unreadable] :
                         k \in KeyFileChoices}
    /\ keysPlist = keyFiles
    /\ cryptoAgent = NoAgent
    /\ contents = <<>>
    /\ files = EmptyMap
    /\ now = 1
    /\ last = NoCall
    /\ keys = EmptyMap
    /\ timers = EmptyBag
    /\ held = NoHeld
    /\ lockedAt = [v \in AllPaths |-> 0]
    /\ timedOut = {}
    /\ pc = EmptyMap
    /\ call = EmptyMap
    /\ crashed = FALSE
    /\ crypt = NoCrypt
    /\ pif = NoPif
    /\ boot = NoBoot

\* vault.SetMasterPassword(currentPwd, newPwd): r is what the loop over the
\* entries gives, s what saveEncryptionKeys does with it.
KeysSetMasterPasswordThen(currentPwd, newPwd, r, s) ==
    /\ keyFiles' = [keyFiles EXCEPT ![VaultA] = IF r.err # Nil THEN r.keyFile ELSE s.js]
    /\ keysPlist' = IF r.err # Nil THEN keysPlist
                    ELSE [keysPlist EXCEPT ![VaultA] = s.plist]
    /\ last' = [NoCall EXCEPT !.op = "SetMasterPassword", !.in = currentPwd,
                              !.out = newPwd,
                              !.err = IF r.err # Nil THEN r.err ELSE s.err]
    /\ UNCHANGED <<cryptoAgent, contents, files, now>>
    /\ UNCHANGED notVaultVarsButKeyFiles
KeysSetMasterPasswordWith(currentPwd, newPwd, r, jsWritten, plistWritten) ==
    KeysSetMasterPasswordThen(currentPwd, newPwd, r,
                              saveEncryptionKeys(keyFiles[VaultA], keysPlist[VaultA],
                                                 r.keyFile, jsWritten, plistWritten))
KeysSetMasterPassword(currentPwd, newPwd, saltSeed, vSaltSeed, jsWritten, plistWritten) ==
    KeysSetMasterPasswordWith(currentPwd, newPwd,
                              SetMasterPassword(keyFiles[VaultA], currentPwd, newPwd,
                                                RandomBytesFor(saltSeed, saltLen),
                                                RandomBytesFor(vSaltSeed, saltLen)),
                              jsWritten, plistWritten)

KeysNext ==
    \/ \E p, q \in Passwords, s, vs \in Seeds, w1, w2 \in BOOLEAN :
          KeysSetMasterPassword(p, q, s, vs, w1, w2)
    \/ \E p \in Passwords : DoUnlock(p)
    \/ DoLock

SpecKeys == KeysInit /\ [][KeysNext]_vars

----------------------------------------------------------------------------
(* SpecBoot: runs of the client, one after the other, with the agent       *)
(* processes they find, stop and start, and a binary that is rebuilt       *)

notBootVars == <<keyFiles, keys, timers, now, last, held, lockedAt, timedOut,
                 cryptoAgent, contents, files, pc, call, crashed, crypt, pif, keysPlist>>

\* No agent runs, or one of the current binary does.
BootInits ==
    {NoBoot,
     [NoBoot EXCEPT !.listener = [BinaryVersion |-> 1, Pid |-> 1], !.spawned = 1]}

BootInit ==
    /\ boot \in BootInits
    /\ keyFiles = InitialKeyFiles
    /\ keys = EmptyMap
    /\ timers = EmptyBag
    /\ now = 0
    /\ last = NoCall
    /\ held = NoHeld
    /\ lockedAt = [v \in AllPaths |-> 0]
    /\ timedOut = {}
    /\ cryptoAgent = NoAgent
    /\ contents = <<>>
    /\ files = EmptyMap
    /\ pc = EmptyMap
    /\ call = EmptyMap
    /\ crashed = FALSE
    /\ crypt = NoCrypt
    /\ pif = NoPif
    /\ keysPlist = keyFiles

\* The user runs a command that needs the agent.
ClientStart ==
    /\ boot.pc = "idle"
    /\ boot.spawned < MaxSpawn
    /\ boot' = [boot EXCEPT !.pc = "main"]
    /\ UNCHANGED notBootVars

\* main: DialAgent, the comparison of the versions, the signal to the
\* agent and startAgent.
ClientConnect(answers) ==
    /\ boot.pc = "main"
    /\ boot' = BootConnect(boot, DialAgent(boot.listener, answers))
    /\ UNCHANGED notBootVars

\* main: DialAgent in the loop, 10 ms after the one before.
ClientPoll(answers) ==
    /\ boot.pc = "poll"
    /\ boot' = BootPoll(boot, DialAgent(boot.listener, answers))
    /\ UNCHANGED notBootVars

\* The command has run, or fatalErr has ended the process.
ClientExit ==
    /\ boot.pc \in {"run", "failed"}
    /\ boot' = [boot EXCEPT !.pc = "idle"]
    /\ UNCHANGED notBootVars

\* An agent process that was started gets to Serve.
AgentListen ==
    /\ boot.starting > 0
    /\ boot' = AgentServe(boot)
    /\ UNCHANGED notBootVars

\* SIGINT stops the agent it was sent to.
AgentStopped ==
    /\ boot.signalled
    /\ boot' = [boot EXCEPT !.listener = NoInfo, !.signalled = FALSE]
    /\ UNCHANGED notBootVars

\* The app binary is replaced by a newer build.
BinaryRebuilt ==
    /\ boot.binary < MaxVersion
    /\ boot' = [boot EXCEPT !.binary = @ + 1]
    /\ UNCHANGED notBootVars

\* An agent that was signalled may or may not answer; another one does.
BootNext ==
    \/ ClientStart
    \/ \E answers \in {TRUE, ~boot.signalled} : ClientConnect(answers)
    \/ \E answers \in {TRUE, ~boot.signalled} : ClientPoll(answers)
    \/ ClientExit
    \/ AgentListen
    \/ AgentStopped
    \/ BinaryRebuilt

SpecBoot == BootInit /\ [][BootNext]_vars

----------------------------------------------------------------------------
(* Properties *)

AgentLocked(v) == OnePassAgentIsLocked(keys, v)
IsCrypt == last.op \in {"Encrypt", "Decrypt"}

\* C1: Vault.Unlock with a password that is not the master password
\* returns an error and the vault is still locked afterwards.
C1_FailedUnlockStaysLocked ==
    (last.op = "Unlock" /\ last.in # PwdTest)
        => (last.err # Nil /\ VaultIsLocked(cryptoAgent))

C3_AfterAutoLockNoSuchVault ==
    (IsCrypt /\ last.vault \in timedOut)
        => (last.out = NoBytes /\ last.err \notin {Nil, ErrNoSuchKey})

\* C4: no two handlers are inside agent.keys at once with one of them
\* writing it, and the runtime never stops the agent.
C4_MapAccessSerialized ==
    /\ ~crashed
    /\ \A g, h \in DOMAIN pc : ~DataRace(g, h)

\* C5: when a timer callback locks a vault, expireAfter has elapsed since
\* the vault's most recent successful Unlock or RefreshAccess.
C5_NoEarlyAutoLock ==
    (last.op = "TimerFire" /\ last.flag) => now >= lockedAt[last.vault]

\* C6: every vault starts locked; an Unlock with the master password
\* succeeds and leaves the vault unlocked; a Lock leaves it locked; IsLocked
\* answers whether it is; and a locked vault stays locked until a
\* successful Unlock of it.
C6_Replies ==
    /\ (last.op = "Unlock" /\ last.vault = VaultA /\ last.in = PwdTest)
          => (last.err = Nil /\ ~AgentLocked(VaultA))
    /\ last.op = "Lock" => AgentLocked(last.vault)
    /\ last.op = "IsLocked" => (last.flag <=> AgentLocked(last.vault))
C6_Step ==
    \A v \in AllPaths :
        (OnePassAgentIsLocked(keys, v) /\ ~OnePassAgentIsLocked(keys', v))
            => (last'.op = "Unlock" /\ last'.vault = v /\ last'.err = Nil)
C6_LockUnlock ==
    /\ \A v \in AllPaths : AgentLocked(v)
    /\ []C6_Replies
    /\ [][C6_Step]_vars

\* Lock has just run on a vault that had been unlocked and whose timer has
\* not fired since.
C6_Witness ==
    /\ last.op = "Lock" /\ last.vault = VaultA
    /\ lockedAt[VaultA] > 0 /\ VaultA \notin timedOut
    /\ AgentLocked(VaultA)

\* C7: decrypting through the client what the client's Encrypt returned,
\* for the same unlocked vault and key level, gives back the data.
C7_ClientRoundTrip ==
    (/\ last.op = "Decrypt" /\ held # NoHeld
     /\ last.in = held.ct /\ last.vault = held.vault /\ last.level = held.level
     /\ ~AgentLocked(last.vault))
        => (last.err = Nil /\ last.out = held.data)

\* C8: Encrypt and Decrypt produce no output when the vault is not unlocked
\* or the level has no key, and the two failures carry different errors.
C8_DistinctErrors ==
    IsCrypt =>
        /\ AgentLocked(last.vault)
              => (last.out = NoBytes /\ last.err \notin {Nil, ErrNoSuchKey})
        /\ (~AgentLocked(last.vault) /\ last.level \notin DOMAIN keys[last.vault].m)
              => (last.out = NoBytes /\ last.err = ErrNoSuchKey)

\* C9: RefreshAccess fails on a vault that is not unlocked and leaves it
\* locked; on an unlocked vault it succeeds and leaves exactly one pending
\* timer for the vault, due expireAfter after the call.
C9_RefreshAccess ==
    last.op = "RefreshAccess" =>
        IF AgentLocked(last.vault) THEN last.err = ErrNotUnlocked
        ELSE /\ last.err = Nil
             /\ TimersOf(timers, last.vault)
                    = {[vault |-> last.vault, at |-> lockedAt[last.vault]]}
             /\ CopiesIn([vault |-> last.vault, at |-> lockedAt[last.vault]], timers) = 1

\* RefreshAccess has succeeded some time after the vault was unlocked.
C9_Witness ==
    /\ last.op = "RefreshAccess" /\ last.err = Nil
    /\ now > 0 /\ lockedAt[last.vault] > now

\* C10: ListItems returns no tombstone and returns every other item that
\* has a file, trashed or not.
C10_ListItems ==
    last.op = "ListItems" =>
        /\ \A k \in 1..Len(last.items) : last.items[k].typeName # Tombstone
        /\ \A u \in DOMAIN files :
              files[u].typeName # Tombstone
                  => \E k \in 1..Len(last.items) : last.items[k] = files[u]

\* ListItems has returned a trashed item while a tombstone is on disk.
C10_Witness ==
    /\ last.op = "ListItems"
    /\ \E k \in 1..Len(last.items) : last.items[k].trashed
    /\ \E u \in DOMAIN files : files[u].typeName = Tombstone

\* C11: after a Remove that succeeded the item's file and its one index row
\* are still there under the same uuid; LoadItem returns the item with
\* typeName "system.Tombstone", title "Unnamed" and trashed set, and its
\* encrypted body decrypts to the empty content.
C11_RemoveLeavesTombstone ==
    (last.op = "Remove" /\ last.err = Nil) =>
        /\ LoadItem(files, last.uuid).err = Nil
        /\ Cardinality(RowsOf(contents, last.uuid)) = 1
        /\ LoadItem(files, last.uuid).item.uuid = last.uuid
        /\ LoadItem(files, last.uuid).item.typeName = "system.Tombstone"
        /\ LoadItem(files, last.uuid).item.title = "Unnamed"
        /\ LoadItem(files, last.uuid).item.trashed
        /\ Content(cryptoAgent, LoadItem(files, last.uuid).item)
              = [err |-> Nil, content |-> EmptyContent]

\* Remove has succeeded on an item that was added with a website url; its
\* index row names the tombstone.
C11_Witness ==
    /\ last.op = "Remove" /\ last.err = Nil
    /\ last.item.location = "example.com"
    /\ \E i \in RowsOf(contents, last.uuid) : contents[i][2] = "system.Tombstone"

\* C12: when SetContent(c) has succeeded on an item (in AddItem, in an edit
\* or in Remove) and the vault is unlocked, Content() of the item as it is
\* loaded back succeeds and returns c.
C12_Step ==
    (/\ last.op \in {"AddItem", "SetContent", "Remove"} /\ last.err = Nil
     /\ ~VaultIsLocked(cryptoAgent)
     /\ last'.op = "Content" /\ last'.uuid = last.uuid)
        => (last'.err = Nil /\ last'.content = last.content)
C12_ContentRoundTrip == [][C12_Step]_vars

\* The entries of urls labeled exactly "website".
WebsiteEntries(urls) == {i \in 1..Len(urls) : urls[i].Label = "website"}
ExpectedLocation(urls, before) ==
    IF WebsiteEntries(urls) = {} THEN before
    ELSE urls[CHOOSE i \in WebsiteEntries(urls) : TRUE].Url

\* C13: after SetContent(c) (in an edit, in Remove, or in an AddItem that
\* returned the item) the item's location is the url of the entry of c.urls
\* labeled exactly "website" if there is one, and is what it was otherwise;
\* the item file a successful call wrote holds the same location.
C13_Step ==
    (\/ last'.op \in {"SetContent", "Remove"}
     \/ last'.op = "AddItem" /\ last'.err = Nil)
        => /\ last'.item.location
                = ExpectedLocation(IF last'.op = "Remove" THEN <<>> ELSE last'.content.Urls,
                                   LoadItem(files, last'.uuid).item.location)
           /\ last'.err = Nil => files'[last'.uuid].location = last'.item.location
C13_Location == [][C13_Step]_vars

\* An edit has set a content whose only url is labeled "Website" on an item
\* whose location came from a "website" url: the location was kept.
C13_Witness ==
    /\ last.op = "SetContent" /\ last.err = Nil
    /\ last.content = OtherContent
    /\ last.item.location = "example.com"
    /\ files[last.uuid].location = "example.com"

\* C14: every item file has createdAt <= updatedAt, both non-zero; a save
\* that succeeds sets the item's updatedAt to the current time, and its
\* createdAt too when it is the item's first save; afterwards createdAt
\* never changes and updatedAt never decreases.  (The one step that is not
\* a call is the tick of the clock, which leaves the files alone.)
SavingOps == {"AddItem", "Save", "Trash", "Restore", "Remove", "SetContent"}
C14_Saved ==
    \A u \in DOMAIN files :
        /\ files[u].createdAt # 0 /\ files[u].updatedAt # 0
        /\ files[u].createdAt <= files[u].updatedAt
C14_Step ==
    /\ \A u \in (DOMAIN files) \cap (DOMAIN files') :
          /\ files'[u].createdAt = files[u].createdAt
          /\ files'[u].updatedAt >= files[u].updatedAt
    /\ (last'.op \in SavingOps /\ last'.err = Nil /\ now' = now) =>
          /\ last'.uuid \in DOMAIN files'
          /\ files'[last'.uuid].updatedAt = now
          /\ last'.uuid \notin DOMAIN files => files'[last'.uuid].createdAt = now
C14_Timestamps == []C14_Saved /\ [][C14_Step]_vars

\* An item has been saved again at a later time than its first save.
C14_Witness ==
    /\ last.op = "Save" /\ last.err = Nil
    /\ files[last.uuid].createdAt < files[last.uuid].updatedAt
    /\ files[last.uuid].updatedAt = now

\* What every item file decrypts to with the keys a password unlocks.
DecryptedWith(keyFile, pwd) ==
    [u \in DOMAIN files |->
        ContentJson(simpleCryptoAgent(UnlockKeys(keyFile, pwd).keys), files[u])]

\* C15: when SetMasterPassword(old, new) has succeeded, Unlock(new)
\* succeeds, and every item decrypts with the keys it yields to what the
\* item decrypted to with the keys of Unlock(old) before the change.
C15_Step ==
    (last'.op = "SetMasterPassword" /\ last'.err = Nil) =>
        /\ VaultUnlock(keyFiles'[VaultA], last'.out).err = Nil
        /\ ~VaultIsLocked(VaultUnlock(keyFiles'[VaultA], last'.out).cryptoAgent)
        /\ DecryptedWith(keyFiles'[VaultA], last'.out)
              = DecryptedWith(keyFiles[VaultA], last'.in)
        /\ \A u \in DOMAIN files : DecryptedWith(keyFiles[VaultA], last'.in)[u].err = Nil
C15_ChangePassword == [][C15_Step]_vars

\* The master password has just been changed to another one while the vault
\* held an item; the new password unlocks the keys and the old one does not.
C15_Witness ==
    /\ last.op = "SetMasterPassword" /\ last.err = Nil /\ last.in # last.out
    /\ DOMAIN files # {}
    /\ UnlockKeys(keyFiles[VaultA], last.out).err = Nil
    /\ UnlockKeys(keyFiles[VaultA], last.in).err # Nil

\* C16: decryptKey, given the password, salt and iteration count encryptKey
\* was given and the encrypted key and validation it returned, succeeds and
\* returns the key that was encrypted.
C16_KeyRoundTrip ==
    crypt.kind = "key" =>
        /\ crypt.op \in {"encryptKey", "decryptKey"} => crypt.enc.err = Nil
        /\ crypt.op = "decryptKey" => crypt.dec = Ok(crypt.key)

\* A key of the item key length went through encryptKey and decryptKey
\* under the empty password and one iteration.
C16_Witness ==
    /\ crypt.kind = "key" /\ crypt.op = "decryptKey"
    /\ crypt.pwd = NoBytes /\ crypt.iterations = 1
    /\ Len(crypt.key) = agileKeychainKeyLen /\ crypt.dec.out = crypt.key

\* C17: aesAddPadding(s) is s followed by n bytes of value n, 1 <= n <= 16,
\* its length is a multiple of 16 above that of s, and aesStripPadding
\* returns s for it.
C17_PaddingRoundTrip ==
    (crypt.kind = "plain" /\ crypt.op # "none") =>
        /\ Len(crypt.data) % 16 = 0
        /\ Len(crypt.data) > Len(crypt.s)
        /\ Len(crypt.data) - Len(crypt.s) \in 1..16
        /\ SubSeq(crypt.data, 1, Len(crypt.s)) = crypt.s
        /\ \A i \in (Len(crypt.s) + 1)..Len(crypt.data) :
              crypt.data[i] = Len(crypt.data) - Len(crypt.s)
        /\ crypt.op = "aesStripPadding" => crypt.stripped = Ok(crypt.s)

\* A plaintext of two whole blocks, ending in bytes of value 16, was padded
\* and stripped.
C17_Witness ==
    /\ crypt.kind = "plain" /\ crypt.op = "aesStripPadding"
    /\ crypt.s = Fill(16, 32)
    /\ Len(crypt.data) = 48

\* C18: stripping the padding of decrypted blocks never stops the process;
\* it returns an error when the last byte is not in 1..16, and the blocks
\* without their last n bytes when the last byte is n in 1..16.
C18_StripRejects ==
    (crypt.kind \in {"blocks", "cipher"} /\ crypt.op # "none" /\ Len(crypt.s) % 16 = 0) =>
        /\ crypt.stripped.err # ErrPanic
        /\ Len(crypt.s) > 0 =>
              IF crypt.s[Len(crypt.s)] \in 1..16
              THEN crypt.stripped
                     = Ok(SubSeq(crypt.s, 1, Len(crypt.s) - crypt.s[Len(crypt.s)]))
              ELSE crypt.stripped.err # Nil

\* The error decryptKey returns to UnlockKeys for the first key entry.
FirstKeyError(keyFile, pwd) ==
    LET entry == keyFile.list[1]
        x == extractSaltAndCipherText(entry.data)
    IN  decryptKey(pwd, x.cipherText, x.salt, entry.iterations, entry.validation).err

\* C19: an Unlock that fails reports a wrong master password (DecryptError,
\* the error the password hint is shown for) exactly when the decrypted
\* validation differs from the decrypted key, and another error when the
\* decryption failed structurally, as on bad padding.
C19_FailureKinds ==
    (last.op = "Unlock" /\ last.err # Nil /\ keyFiles[VaultA].ok) =>
        (last.err = DecryptError <=> FirstKeyError(keyFiles[VaultA], last.in) = ErrValidation)

\* C20: NewVault on a path that exists fails and changes nothing on disk.
\* On a path that does not exist it leaves an empty index and a key file
\* with the one key entry of level SL5, and the vault it returns is locked;
\* an Unlock with the password given to NewVault then succeeds, and an item
\* added to the unlocked vault is on disk and decrypts to the JSON of its
\* content, which Content() of an item of a listed type reads back as the
\* content with its lists initialised.
C20_Step ==
    /\ (last'.op = "NewVault" /\ last'.vault = VaultA /\ VaultExists(keyFiles, VaultA)) =>
          /\ last'.err # Nil
          /\ UNCHANGED <<keyFiles, contents, files>>
    /\ (last'.op = "NewVault" /\ last'.vault = VaultA /\ ~VaultExists(keyFiles, VaultA)) =>
          /\ last'.err = Nil
          /\ contents' = <<>> /\ files' = EmptyMap
          /\ Len(keyFiles'[VaultA].list) = 1
          /\ keyFiles'[VaultA].list[1].level = "SL5"
          /\ keyFiles'[VaultA].SL5 = keyFiles'[VaultA].list[1].identifier
          /\ VaultIsLocked(cryptoAgent')
    /\ (last.op = "NewVault" /\ last.err = Nil /\ last'.op = "Unlock" /\ last'.in = last.in) =>
          /\ last'.err = Nil
          /\ ~VaultIsLocked(cryptoAgent')
          /\ "SL5" \in DOMAIN cryptoAgent'.keys.m
    /\ (last.op = "Unlock" /\ last.err = Nil /\ last'.op = "AddItem") =>
          /\ last'.err = Nil
          /\ LoadItem(files', last'.uuid) = [err |-> Nil, item |-> last'.item]
          /\ ContentJson(cryptoAgent', LoadItem(files', last'.uuid).item)
                = Ok(MarshalContent(InitSlices(last'.content)))
          /\ last'.item.typeName \in ItemTypes =>
                Content(cryptoAgent', LoadItem(files', last'.uuid).item)
                    = [err |-> Nil, content |-> InitSlices(last'.content)]
C22_BootProtocol ==
    /\ (boot.pc # "idle" /\ boot.mismatch) => (boot.killed # 0 /\ boot.started)
    /\ boot.attempts <= MaxPoll
    /\ boot.pc = "poll" => boot.attempts < MaxPoll
    /\ boot.pc = "failed" => boot.err = ErrConnectAgent
    /\ boot.pc = "run" => (boot.info.Pid # 0 /\ boot.info.BinaryVersion = boot.client)

C24_GenPassword ==
    (/\ crypt.kind = "password" /\ crypt.op = "GenPassword"
     /\ crypt.length \in 4..20 /\ crypt.dec.err = Nil) =>
        /\ Len(crypt.dec.out) = crypt.length
        /\ \E k \in 1..crypt.length : IsLower(crypt.dec.out[k])
        /\ \E k \in 1..crypt.length : IsUpper(crypt.dec.out[k])
        /\ \E k \in 1..crypt.length : IsDigit(crypt.dec.out[k])
        /\ \A k \in 1..crypt.length :
              /\ crypt.dec.out[k] \notin {43, 47, 61}
              /\ crypt.dec.out[k] = 45 <=> (k % 4 = 0 /\ k < crypt.length)

\* A password of 16 characters was returned, its last character in the
\* place of a "-"; a "/" had been met while it was built.
C24_Witness ==
    /\ crypt.kind = "password" /\ crypt.op = "GenPassword" /\ crypt.dec.err = Nil
    /\ crypt.length = 16 /\ Len(crypt.dec.out) = 16 /\ crypt.dec.out[16] # 45
    /\ \E j \in 1..12 : Base64Encode(RandomBytesFor(crypt.seed, 16))[j] = 47

\* C25: after an Unlock that succeeded the vault is locked again at some
\* later time without any call that locks it, and the agent then holds no
\* entry for the vault.
C25_AutoLock ==
    \A v \in VaultPaths :
        (last.op = "Unlock" /\ last.vault = v /\ last.err = Nil /\ ~AgentLocked(v))
            ~> (AgentLocked(v) /\ v \notin DOMAIN keys)

\* A timer callback has locked a vault that was unlocked until then.
C25_Witness ==
    /\ last.op = "TimerFire" /\ last.flag
    /\ AgentLocked(last.vault) /\ last.vault \notin DOMAIN keys
    /\ now >= lockedAt[last.vault]

\* C26: Save on an item whose encrypted body is empty returns an error and
\* changes nothing: no item file is created or overwritten, contents.js is
\* not modified, and the item's updatedAt and createdAt (as every other
\* field of it) are what they were before the call.
C26_Step ==
    last'.op = "SaveUnset" =>
        /\ last'.err = ErrContentNotSet
        /\ files' = files
        /\ contents' = contents
        /\ last'.item = last'.items[1]
        /\ Len(last'.items[1].encrypted) = 0
C26_SaveUnset == [][C26_Step]_vars
\* Save was called on an item without a body whose file and index row
\* exist, and on one that has neither.
C26_Witness ==
    /\ last.op = "SaveUnset"
    /\ last.uuid \in DOMAIN files
    /\ Len(files[last.uuid].encrypted) > 0
    /\ RowsOf(contents, last.uuid) # {}
    /\ last.items[1].updatedAt > 0

\* C27: SetContent and Content return an error whenever the vault is locked
\* (never unlocked, or locked again by Lock), and a SetContent that fails
\* leaves the item as it was: neither item.encrypted nor item.location is
\* modified.
C27_Step ==
    /\ (last'.op \in {"SetContent", "Content"} /\ VaultIsLocked(cryptoAgent)) =>
           last'.err # Nil
    /\ (last'.op = "SetContent" /\ last'.err # Nil) =>
           /\ last'.item.encrypted = LoadItem(files, last'.uuid).item.encrypted
           /\ last'.item.location = LoadItem(files, last'.uuid).item.location
C27_NeedsUnlocked == [][C27_Step]_vars

\* C28: an agent Unlock with a wrong master password or an unreadable key
\* file returns an error, and an Unlock that returns an error leaves the
\* agent as it was: no entry of agent.keys is added or replaced (a locked
\* vault stays locked, an unlocked one keeps its keys) and no auto-lock
\* timer is installed.
C28_Step ==
    (last'.op = "Unlock" /\ now' = now) =>
        /\ (last'.in = PwdWrong \/ keyFiles[last'.vault] = Unreadable) => last'.err # Nil
        /\ last'.err # Nil =>
              /\ ~last'.flag
              /\ keys' = keys
              /\ timers' = timers
              /\ \A v \in AllPaths : AgentLocked(v)' = AgentLocked(v)
C28_FailedUnlock == [][C28_Step]_vars
\* An Unlock has failed for a vault that is unlocked and has a timer
\* pending.
C28_Witness ==
    /\ last.op = "Unlock" /\ last.err # Nil /\ last.in = PwdWrong
    /\ ~AgentLocked(last.vault)
    /\ TimersOf(timers, last.vault) # {}

\* C29: SetMasterPassword is all-or-nothing over the key entries.  When the
\* current password does not decrypt every entry, or an entry is malformed,
\* it returns an error and neither encryptionKeys.js nor 1password.keys is
\* rewritten, so each password unlocks the vault afterwards exactly when it
\* did before; and encryptionKeys.js is never left with one entry under the
\* new password and another under the old one: it is what it was, or the
\* new password unlocks all of it.
C29_Step ==
    last'.op = "SetMasterPassword" =>
        /\ UnlockKeys(keyFiles[VaultA], last'.in).err # Nil =>
              /\ last'.err # Nil
              /\ keyFiles' = keyFiles
              /\ keysPlist' = keysPlist
        /\ \/ keyFiles'[VaultA] = keyFiles[VaultA]
           \/ UnlockKeys(keyFiles'[VaultA], last'.out).err = Nil
        /\ \/ keysPlist'[VaultA] = keysPlist[VaultA]
           \/ UnlockKeys(keysPlist'[VaultA], last'.out).err = Nil
C29_AllOrNothing == [][C29_Step]_vars
\* SetMasterPassword has failed on the second entry, after the current
\* password had decrypted the first one.
C29_Witness ==
    /\ last.op = "SetMasterPassword" /\ last.err = ErrDecryptMainKey
    /\ last.in # last.out
    /\ UnlockKeys([keyFiles[VaultA] EXCEPT !.list = <<@[1]>>], last.in).err = Nil
    /\ UnlockKeys(keyFiles[VaultA], last.in).err # Nil
    /\ UnlockKeys(keyFiles[VaultA], last.out).err # Nil

\* C30: trashing, restoring, renaming an item or moving it to a folder sets
\* that one field and updatedAt of the item and nothing else: its uuid,
\* typeName, securityLevel, createdAt and encrypted content (and every
\* other field) are unchanged, its row of contents.js is replaced where it
\* was and not duplicated, and the files and rows of the other items are
\* not modified.
EditOps == {"Trash", "Restore", "Rename", "Move"}
EditedField(op) ==
    CASE op \in {"Trash", "Restore"} -> "trashed"
      [] op = "Rename" -> "title"
      [] op = "Move" -> "folderUuid"
C30_Step ==
    (last'.op \in EditOps /\ now' = now) =>
        /\ last'.err = Nil
        /\ DOMAIN files' = DOMAIN files
        /\ \A u \in DOMAIN files : u # last'.uuid => files'[u] = files[u]
        /\ \A f \in DOMAIN ZeroItem \ {EditedField(last'.op), "updatedAt"} :
              files'[last'.uuid][f] = files[last'.uuid][f]
        /\ files'[last'.uuid].updatedAt = now
        /\ Len(contents') = Len(contents)
        /\ \A i \in 1..Len(contents) :
              IF readContentsEntry(contents[i]).uuid = last'.uuid
              THEN contents'[i] = contentsEntry(files'[last'.uuid])
              ELSE contents'[i] = contents[i]
C30_EditFrame == [][C30_Step]_vars
\* An item that has the first of two index rows has been renamed at a later
\* time than it was added, while in a folder and in the trash.
C30_Witness ==
    /\ last.op = "Rename" /\ last.err = Nil
    /\ files[last.uuid].title = "mail"
    /\ files[last.uuid].trashed
    /\ files[last.uuid].folderUuid = "folder-1"
    /\ files[last.uuid].createdAt < files[last.uuid].updatedAt
    /\ Len(contents) = 2
    /\ RowsOf(contents, last.uuid) = {1}

====
